---- MODULE Spec2Model ----
(***************************************************************************)
(* MiniDB storage engine: the B-tree (core/btree.cpp), the hash map        *)
(* (core/hashmap.cpp), the page manager with its LRU policy                *)
(* (storage/page_manager.cpp), the table with its per-column indices       *)
(* (storage/table.cpp), and the SQL layer on top of the table              *)
(* (query/parser.cpp, query/executor.cpp).                                 *)
(*                                                                         *)
(* Each component has its own specification over its own variables         *)
(* (SpecBTree and SpecBTreeDeep, SpecPM, SpecHashMap, SpecTable and        *)
(* SpecHashTable for the Table with hash indices only, SpecSQL); the       *)
(* variables of the other components stay at their initial value.  C++     *)
(* vectors are 0-based and TLA+ sequences 1-based: an index i of the code  *)
(* is position i + 1 here.                                                 *)
(* The headers (include/minidb/...) are not part of the sources at hand;   *)
(* what they define (BTreeNode::is_full, Page::add_ref, HashMap::hash ...) *)
(* is taken from the design document and marked so in MODEL_MAP.json.      *)
(***************************************************************************)
EXTENDS Integers, Sequences, FiniteSets, TLC

VARIABLES
    \* BTree<int, 5>
    root_,          \* the root node: [is_leaf, keys, key_count, children]
    size_,          \* BTree::size_
    bt_called,      \* history: the keys insert() was called with
    bt_repeat,      \* history: some insert() call repeated an earlier key
    bt_last,        \* history: the last BTree call, its argument and result
    \* PageManager + LRUPolicy
    pages_,         \* page id -> [ref_count, dirty]
    current_pages_, \* PageManager::current_pages_
    next_page_id_,  \* PageManager::next_page_id_
    max_pages_,     \* PageManager::max_pages_ (constructor argument)
    access_order_,  \* LRUPolicy::access_order_
    pm_rank,        \* history: resident page id -> recency rank (1 = oldest)
    pm_last,        \* history: the last PageManager call: its name, whether it
                    \* succeeded and, for allocate_page and deallocate_page,
                    \* what the call found before it changed anything
    \* Table
    rows_,          \* Table::rows_: a sequence of [id, values]
    next_row_id_,   \* Table::next_row_id_
    indices_,       \* Table::indices_: column name -> [kind, hashmap, btree]
    tb_last,        \* history: the last Table call and whether it succeeded
    tree_inserted,  \* history: column with a btree index -> the values that
                    \* index->insert was called with since the index was built
    \* HashMap<int, int>
    hashmap_,       \* the map: [buckets, bucket_count, size]
    hm_stored,      \* history: key -> the value last stored for it by a call
                    \* that reported storing it, for the keys not removed since
    hm_last,        \* history: the last HashMap call and what it returned
    \* QueryExecutor
    table_refs_,    \* the names of the executor's tables (the keys of tables_
                    \* and table_refs_); the Table of the one name that is
                    \* ever created is rows_, next_row_id_, indices_
    sql_result      \* the QueryResult the last execute_sql returned:
                    \* [success, affected_rows, error_message]

btVars == <<root_, size_, bt_called, bt_repeat, bt_last>>
pmVars == <<pages_, current_pages_, next_page_id_, max_pages_, access_order_,
            pm_rank, pm_last>>
tbVars == <<rows_, next_row_id_, indices_, tb_last, tree_inserted>>
hmVars == <<hashmap_, hm_stored, hm_last>>
sqlVars == <<table_refs_, sql_result>>
vars == <<btVars, pmVars, tbVars, hmVars, sqlVars>>

(***************************************************************************)
(* Bounds of the model.                                                    *)
(***************************************************************************)
MaxKey == 6         \* BTree keys are drawn from 1..MaxKey
MaxPoolSize == 2    \* max_pages_ is drawn from 1..MaxPoolSize
MaxPageId == 3      \* allocate_page is not called once next_page_id_ exceeds it
MaxPin == 1         \* pin_page is not called on a page pinned MaxPin times
MaxValue == 2       \* column values are drawn from 1..MaxValue
MaxRows == 2        \* insert_row is not called on a table of MaxRows rows
MaxRowId == 3       \* insert_row is not called once next_row_id_ exceeds it
MaxHashKey == 5     \* HashMap keys are drawn from 1..MaxHashKey
MaxDeepKey == 11    \* BTree keys of the runs that split internal nodes
InitialBuckets == 2 \* the bucket count a HashMap starts with
MaxBuckets == 3     \* rehash is asked for bucket counts of 1..MaxBuckets

(***************************************************************************)
(* Program constants.                                                      *)
(***************************************************************************)
Order == 5              \* template class BTree<int, 5>
INVALID_PAGE_ID == 0    \* the invalid-id sentinel of allocate_page
SIZE_MAX == 2147483647  \* stands for SIZE_MAX, above every column index

Keys == 1..MaxKey

(***************************************************************************)
(* Sequence helpers: std::vector::insert and erase.                        *)
(***************************************************************************)
InsertAt(s, pos, x) == SubSeq(s, 1, pos - 1) \o <<x>> \o SubSeq(s, pos, Len(s))

RemoveAt(s, pos) == SubSeq(s, 1, pos - 1) \o SubSeq(s, pos + 1, Len(s))

ReplaceAt(s, pos, x) == [s EXCEPT ![pos] = x]

(***************************************************************************)
(* BTree<int, 5>                                                           *)
(***************************************************************************)
\* compare_(a, b): negative, zero or positive as a < b, a = b, a > b
compare_(a, b) == IF a < b THEN -1 ELSE IF a > b THEN 1 ELSE 0

\* std::make_shared<BTreeNode<T, Order>>(is_leaf)
NewNode(is_leaf) ==
    [is_leaf |-> is_leaf, keys |-> <<>>, key_count |-> 0, children |-> <<>>]

\* BTreeNode::is_full(): the node holds Order - 1 keys
is_full(node) == node.key_count = Order - 1

\* split_child(parent, child_index): the parent after the split
split_child(parent, child_index) ==
    LET full_child == parent.children[child_index + 1]
        mid_index == (Order - 1) \div 2
        \* keys[mid_index + 1 .. Order - 2] go to the new child
        new_keys == SubSeq(full_child.keys, mid_index + 2, Order - 1)
        \* children[mid_index + 1 .. Order - 1] go to the new child
        new_children == IF full_child.is_leaf THEN <<>>
                        ELSE SubSeq(full_child.children, mid_index + 2, Order)
        new_child == [is_leaf |-> full_child.is_leaf, keys |-> new_keys,
                      key_count |-> Len(new_keys), children |-> new_children]
        \* full_child->children.resize(mid_index + 1)
        kept_children == IF full_child.is_leaf THEN full_child.children
                         ELSE SubSeq(full_child.children, 1, mid_index + 1)
        \* full_child->keys.resize(mid_index); key_count = mid_index
        resized == SubSeq(full_child.keys, 1, mid_index)
        \* middle_key = keys.back(); keys.pop_back(); key_count--
        middle_key == resized[Len(resized)]
        kept_keys == SubSeq(resized, 1, Len(resized) - 1)
        shrunk == [is_leaf |-> full_child.is_leaf, keys |-> kept_keys,
                   key_count |-> mid_index - 1, children |-> kept_children]
    IN [is_leaf |-> parent.is_leaf,
        keys |-> InsertAt(parent.keys, child_index + 1, middle_key),
        key_count |-> parent.key_count + 1,
        children |-> InsertAt(ReplaceAt(parent.children, child_index + 1, shrunk),
                              child_index + 2, new_child)]

\* the loop left out: i stays at the last key
ScanDown_no_loop(keys, i, key) == i

\* the loop "while (i >= 0 && compare_(key, node->keys[i]) < 0) i--": the final i
RECURSIVE ScanDown(_, _, _)
ScanDown(keys, i, key) ==
    IF i >= 0 /\ compare_(key, keys[i + 1]) < 0
    THEN ScanDown(keys, i - 1, key)
    ELSE i

\* insert_non_full(node, key): the node after the insertion
RECURSIVE insert_non_full(_, _)
insert_non_full(node, key) ==
    LET i0 == ScanDown(node.keys, node.key_count - 1, key)
    IN IF node.is_leaf
       THEN \* keys shifted right from i0 + 1, key stored at index i0 + 1
            [node EXCEPT !.keys = InsertAt(node.keys, i0 + 2, key),
                         !.key_count = node.key_count + 1]
       ELSE LET i1 == i0 + 1
                must_split == is_full(node.children[i1 + 1])
                node1 == IF must_split THEN split_child(node, i1) ELSE node
                i2 == IF must_split /\ compare_(key, node1.keys[i1 + 1]) > 0
                      THEN i1 + 1 ELSE i1
            IN [node1 EXCEPT !.children =
                   ReplaceAt(node1.children, i2 + 1,
                             insert_non_full(node1.children[i2 + 1], key))]

\* the loop "while (i < key_count && compare_(key, node->keys[i]) > 0) i++"
RECURSIVE ScanUp(_, _, _)
ScanUp(node, i, key) ==
    IF i < node.key_count /\ compare_(key, node.keys[i + 1]) > 0
    THEN ScanUp(node, i + 1, key)
    ELSE i

\* search_helper(node, key) != nullptr
RECURSIVE search_helper(_, _)
search_helper(node, key) ==
    LET i == ScanUp(node, 0, key)
    IN IF i < node.key_count /\ compare_(key, node.keys[i + 1]) = 0 THEN TRUE
       ELSE IF node.is_leaf THEN FALSE
       ELSE search_helper(node.children[i + 1], key)

\* BTree::BTree(): an empty leaf as root
NewBTree == [root |-> NewNode(TRUE), size |-> 0]

\* BTree::search(key)
BTree_search(bt, key) == search_helper(bt.root, key)

\* the root insert() descends from: a full root is put under a new root and split
RootForInsert(root) ==
    IF is_full(root)
    THEN split_child([NewNode(FALSE) EXCEPT !.children = <<root>>], 0)
    ELSE root

\* BTree::insert(key)
BTree_insert(bt, key) ==
    IF BTree_search(bt, key)
    THEN [ret |-> FALSE, bt |-> bt]
    ELSE [ret |-> TRUE,
          bt |-> [root |-> insert_non_full(RootForInsert(bt.root), key),
                  size |-> bt.size + 1]]

\* BTree::remove(key): not implemented
BTree_remove(bt, key) == [ret |-> FALSE, bt |-> bt]

\* BTree::clear()
BTree_clear(bt) == NewBTree

\* traverse_helper(node, visitor): the keys in the order the visitor sees
\* them; TraverseFrom is its loop from position i on
RECURSIVE traverse_helper(_)
RECURSIVE TraverseFrom(_, _)
TraverseFrom(node, i) ==
    IF i < node.key_count
    THEN (IF node.is_leaf THEN <<>> ELSE traverse_helper(node.children[i + 1]))
         \o <<node.keys[i + 1]>>
         \o TraverseFrom(node, i + 1)
    ELSE IF node.is_leaf THEN <<>> ELSE traverse_helper(node.children[i + 1])

traverse_helper(node) == TraverseFrom(node, 0)

\* the keys of seq that lie in [start, end], in the order of seq
RECURSIVE InRange(_, _, _)
InRange(seq, start, end) ==
    IF seq = <<>> THEN <<>>
    ELSE (IF compare_(Head(seq), start) >= 0 /\ compare_(Head(seq), end) <= 0
          THEN <<Head(seq)>> ELSE <<>>)
         \o InRange(Tail(seq), start, end)

\* BTree::range_query(start, end)
BTree_range_query(bt, start, end) == InRange(traverse_helper(bt.root), start, end)

\* BTree::empty()
BTree_empty(bt) == bt.size = 0

\* the loop of min(): down children[0] to a leaf
RECURSIVE LeftmostLeaf(_)
LeftmostLeaf(current) ==
    IF current.is_leaf THEN current ELSE LeftmostLeaf(current.children[1])

\* the loop of max(): down children[key_count] to a leaf
RECURSIVE RightmostLeaf(_)
RightmostLeaf(current) ==
    IF current.is_leaf THEN current
    ELSE RightmostLeaf(current.children[current.key_count + 1])

\* BTree::min(): T{} is 0 for int
BTree_min(bt) ==
    IF BTree_empty(bt) THEN 0 ELSE LeftmostLeaf(bt.root).keys[1]

\* max that returns the last key of the root
BTree_max_of_root(bt) ==
    IF BTree_empty(bt) THEN 0 ELSE bt.root.keys[bt.root.key_count]

\* BTree::max()
BTree_max(bt) ==
    IF BTree_empty(bt) THEN 0
    ELSE LET leaf == RightmostLeaf(bt.root) IN leaf.keys[leaf.key_count]

\* the BTree<int, 5> under test
BT == [root |-> root_, size |-> size_]

BTreeInsert(key) ==
    /\ LET r == BTree_insert(BT, key)
       IN /\ root_' = r.bt.root
          /\ size_' = r.bt.size
          /\ bt_last' = [op |-> "insert", key |-> key, ret |-> r.ret,
                         was_called |-> key \in bt_called, size_before |-> size_]
    /\ bt_called' = bt_called \cup {key}
    /\ bt_repeat' = (bt_repeat \/ key \in bt_called)
    /\ UNCHANGED <<pmVars, tbVars, hmVars, sqlVars>>

\* BTree::insert(key) in the runs over 1..MaxDeepKey, which grow a tree of
\* three levels: the call is recorded in bt_called only
BTreeInsertDeep(key) ==
    /\ LET r == BTree_insert(BT, key)
       IN /\ root_' = r.bt.root
          /\ size_' = r.bt.size
    /\ bt_called' = bt_called \cup {key}
    /\ UNCHANGED <<bt_repeat, bt_last, pmVars, tbVars, hmVars, sqlVars>>

BTreeClear ==
    /\ size_ > 0
    /\ LET bt == BTree_clear(BT)
       IN /\ root_' = bt.root
          /\ size_' = bt.size
    /\ bt_called' = {}
    /\ bt_repeat' = FALSE
    /\ bt_last' = [op |-> "clear", key |-> 0, ret |-> TRUE,
                   was_called |-> FALSE, size_before |-> size_]
    /\ UNCHANGED <<pmVars, tbVars, hmVars, sqlVars>>

(***************************************************************************)
(* PageManager with the default LRUPolicy                                  *)
(***************************************************************************)
EmptyMap == [x \in {} |-> 0]

PageIds == 1..MaxPageId

\* the ids of a set as an ascending sequence (iteration order of pages_)
RECURSIVE SortedSeq(_)
SortedSeq(S) ==
    IF S = {} THEN <<>>
    ELSE LET m == CHOOSE x \in S : \A y \in S : x <= y
         IN <<m>> \o SortedSeq(S \ {m})

\* std::find(begin, end, x): the first position of x in s, 0 when absent
RECURSIVE IndexOf(_, _, _)
IndexOf(s, x, from) ==
    IF from > Len(s) THEN 0
    ELSE IF s[from] = x THEN from
    ELSE IndexOf(s, x, from + 1)

\* erase the first occurrence of x, if any
EraseFirst(s, x) ==
    LET pos == IndexOf(s, x, 1)
    IN IF pos = 0 THEN s ELSE RemoveAt(s, pos)

\* LRUPolicy::page_accessed
page_accessed(order, page_id) == Append(EraseFirst(order, page_id), page_id)

\* LRUPolicy::page_added
page_added(order, page_id) == page_accessed(order, page_id)

\* LRUPolicy::page_removed
page_removed(order, page_id) == EraseFirst(order, page_id)

\* select_victim that takes the first candidate whatever the access order
select_victim_first(order, cands) ==
    IF cands = <<>> THEN INVALID_PAGE_ID ELSE cands[1]

\* the loop of select_victim over pages[from..]: the candidate with the
\* smallest position in access_order_ seen so far (lru_page, lru_position)
RECURSIVE VictimScan(_, _, _, _, _)
VictimScan(order, cands, from, lru_page, lru_position) ==
    IF from > Len(cands) THEN lru_page
    ELSE LET it == IndexOf(order, cands[from], 1)
         IN IF it # 0 /\ (lru_position = 0 \/ it < lru_position)
            THEN VictimScan(order, cands, from + 1, cands[from], it)
            ELSE VictimScan(order, cands, from + 1, lru_page, lru_position)

\* LRUPolicy::select_victim
select_victim(order, cands) ==
    IF cands = <<>> THEN INVALID_PAGE_ID
    ELSE LET lru_page == VictimScan(order, cands, 1, INVALID_PAGE_ID, 0)
         IN IF lru_page # INVALID_PAGE_ID THEN lru_page ELSE cands[1]

\* the PageManager's fields as one record, for the operators below
PM == [pages |-> pages_, current_pages |-> current_pages_,
       next_page_id |-> next_page_id_, access_order |-> access_order_]

\* Page::Page: not dirty, no references
NewPage == [ref_count |-> 0, dirty |-> FALSE]

\* Page::add_ref
add_ref(page) == [page EXCEPT !.ref_count = page.ref_count + 1]

\* Page::release_ref: a count of 0 stays 0
release_ref(page) ==
    [page EXCEPT !.ref_count = IF page.ref_count > 0 THEN page.ref_count - 1 ELSE 0]

\* Page::mark_clean
mark_clean(page) == [page EXCEPT !.dirty = FALSE]

\* the map pages_ without the entry of page_id
ErasePage(pages, page_id) == [p \in DOMAIN pages \ {page_id} |-> pages[p]]

\* the map pages_ with page_id bound to page
PutPage(pages, page_id, page) ==
    [p \in DOMAIN pages \cup {page_id} |-> IF p = page_id THEN page ELSE pages[p]]

\* PageManager::get_page: found tells whether the pointer is non-null
get_page(pm, page_id) ==
    IF page_id \notin DOMAIN pm.pages
    THEN [found |-> FALSE, pm |-> pm]
    ELSE [found |-> TRUE,
          pm |-> [pm EXCEPT !.access_order = page_accessed(pm.access_order, page_id)]]

\* PageManager::pin_page
pin_page(pm, page_id) ==
    LET g == get_page(pm, page_id)
    IN IF ~g.found THEN [ret |-> FALSE, pm |-> g.pm]
       ELSE [ret |-> TRUE,
             pm |-> [g.pm EXCEPT !.pages[page_id] = add_ref(g.pm.pages[page_id])]]

\* PageManager::unpin_page
unpin_page(pm, page_id) ==
    LET g == get_page(pm, page_id)
    IN IF ~g.found THEN [ret |-> FALSE, pm |-> g.pm]
       ELSE [ret |-> TRUE,
             pm |-> [g.pm EXCEPT !.pages[page_id] = release_ref(g.pm.pages[page_id])]]

\* PageManager::flush_page
flush_page(pm, page_id) ==
    LET g == get_page(pm, page_id)
    IN IF ~g.found THEN [ret |-> FALSE, pm |-> g.pm]
       ELSE [ret |-> TRUE,
             pm |-> IF g.pm.pages[page_id].dirty
                    THEN [g.pm EXCEPT !.pages[page_id] = mark_clean(g.pm.pages[page_id])]
                    ELSE g.pm]

\* PageManager::flush_all
flush_all(pm) ==
    [pm EXCEPT !.pages = [p \in DOMAIN pm.pages |->
                            IF pm.pages[p].dirty THEN mark_clean(pm.pages[p])
                            ELSE pm.pages[p]]]

\* deallocate_page that tells the policy before it looks at the pin count
deallocate_page_early_notify(pm, page_id) ==
    IF page_id \notin DOMAIN pm.pages THEN [ret |-> FALSE, pm |-> pm]
    ELSE IF pm.pages[page_id].ref_count > 0
    THEN [ret |-> FALSE,
          pm |-> [pm EXCEPT !.access_order = page_removed(pm.access_order, page_id)]]
    ELSE [ret |-> TRUE,
          pm |-> [pm EXCEPT !.access_order = page_removed(pm.access_order, page_id),
                            !.pages = [p \in DOMAIN pm.pages \ {page_id} |-> pm.pages[p]],
                            !.current_pages = pm.current_pages - 1]]

\* PageManager::deallocate_page
deallocate_page(pm, page_id) ==
    IF page_id \notin DOMAIN pm.pages THEN [ret |-> FALSE, pm |-> pm]
    ELSE IF pm.pages[page_id].ref_count > 0 THEN [ret |-> FALSE, pm |-> pm]
    ELSE [ret |-> TRUE,
          pm |-> [pm EXCEPT !.access_order = page_removed(pm.access_order, page_id),
                            !.pages = ErasePage(pm.pages, page_id),
                            !.current_pages = pm.current_pages - 1]]

\* every resident page as evictable, pinned or not
EvictablePagesAll(pm) == SortedSeq(DOMAIN pm.pages)

\* the pages evict_pages may evict: those with no references, in map order
EvictablePages(pm) ==
    SortedSeq({p \in DOMAIN pm.pages : pm.pages[p].ref_count = 0})

\* the eviction loop of evict_pages: victims lists the ids select_victim chose
RECURSIVE EvictLoop(_, _, _, _)
EvictLoop(pm, evictable_pages, remaining, victims) ==
    IF remaining = 0 THEN [ok |-> TRUE, pm |-> pm, victims |-> victims]
    ELSE LET victim == select_victim(pm.access_order, evictable_pages)
         IN IF victim = INVALID_PAGE_ID
            THEN [ok |-> FALSE, pm |-> pm, victims |-> victims]
            ELSE LET flushed == flush_page(pm, victim).pm
                     dropped == deallocate_page(flushed, victim).pm
                 IN EvictLoop(dropped, EraseFirst(evictable_pages, victim),
                              remaining - 1, Append(victims, victim))

\* evict_pages that also gives up when exactly needed_pages pages are evictable
evict_pages_off_by_one(pm, needed_pages) ==
    IF needed_pages = 0 THEN [ok |-> TRUE, pm |-> pm, victims |-> <<>>]
    ELSE LET evictable_pages == EvictablePages(pm)
         IN IF Len(evictable_pages) <= needed_pages
            THEN [ok |-> FALSE, pm |-> pm, victims |-> <<>>]
            ELSE EvictLoop(pm, evictable_pages, needed_pages, <<>>)

\* PageManager::evict_pages
evict_pages(pm, needed_pages) ==
    IF needed_pages = 0 THEN [ok |-> TRUE, pm |-> pm, victims |-> <<>>]
    ELSE LET evictable_pages == EvictablePages(pm)
         IN IF Len(evictable_pages) < needed_pages
            THEN [ok |-> FALSE, pm |-> pm, victims |-> <<>>]
            ELSE EvictLoop(pm, evictable_pages, needed_pages, <<>>)

\* the full-pool test with > in place of >=
PoolFullStrict(pm) == pm.current_pages > max_pages_

\* allocate_page's test for a full pool
PoolFull(pm) == pm.current_pages >= max_pages_

\* allocate_page that takes the new id before it tries to make room
allocate_page_id_first(pm) ==
    LET new_page_id == pm.next_page_id
        taken == [pm EXCEPT !.next_page_id = new_page_id + 1]
        ev == IF PoolFull(taken) THEN evict_pages(taken, 1)
              ELSE [ok |-> TRUE, pm |-> taken, victims |-> <<>>]
    IN IF ~ev.ok
       THEN [ret |-> INVALID_PAGE_ID, pm |-> ev.pm, victims |-> ev.victims]
       ELSE [ret |-> new_page_id,
             pm |-> [ev.pm EXCEPT
                       !.pages = PutPage(ev.pm.pages, new_page_id, NewPage),
                       !.current_pages = ev.pm.current_pages + 1,
                       !.access_order = page_added(ev.pm.access_order, new_page_id)],
             victims |-> ev.victims]

\* PageManager::allocate_page
allocate_page(pm) ==
    LET ev == IF PoolFull(pm) THEN evict_pages(pm, 1)
              ELSE [ok |-> TRUE, pm |-> pm, victims |-> <<>>]
    IN IF ~ev.ok
       THEN [ret |-> INVALID_PAGE_ID, pm |-> ev.pm, victims |-> ev.victims]
       ELSE LET new_page_id == ev.pm.next_page_id
            IN [ret |-> new_page_id,
                pm |-> [ev.pm EXCEPT
                          !.next_page_id = new_page_id + 1,
                          !.pages = PutPage(ev.pm.pages, new_page_id, NewPage),
                          !.current_pages = ev.pm.current_pages + 1,
                          !.access_order = page_added(ev.pm.access_order, new_page_id)],
                victims |-> ev.victims]

\* PageManager::clear
PageManager_clear(pm) ==
    [pm EXCEPT !.pages = EmptyMap, !.current_pages = 0, !.next_page_id = 1]

(***************************************************************************)
(* History of the page manager: the recency rank of each resident page,    *)
(* kept apart from access_order_ (1 = accessed longest ago), and the last  *)
(* call.                                                                   *)
(***************************************************************************)
RankTouch(rank, page_id) ==
    IF page_id \notin DOMAIN rank THEN rank
    ELSE [p \in DOMAIN rank |->
            IF p = page_id THEN Cardinality(DOMAIN rank)
            ELSE IF rank[p] > rank[page_id] THEN rank[p] - 1 ELSE rank[p]]

RankDrop(rank, page_id) ==
    IF page_id \notin DOMAIN rank THEN rank
    ELSE [p \in DOMAIN rank \ {page_id} |->
            IF rank[p] > rank[page_id] THEN rank[p] - 1 ELSE rank[p]]

RankAdd(rank, page_id) ==
    [p \in DOMAIN rank \cup {page_id} |->
        IF p = page_id THEN Cardinality(DOMAIN rank) + 1 ELSE rank[p]]

RECURSIVE RankDropAll(_, _)
RankDropAll(rank, ids) ==
    IF ids = <<>> THEN rank
    ELSE RankDropAll(RankDrop(rank, Head(ids)), Tail(ids))

\* the pin counts of the pages in ids, read from pages
RefCountsOf(pages, ids) == [i \in 1..Len(ids) |-> pages[ids[i]].ref_count]

\* the resident pages nobody has pinned
Unpinned(pages) == {p \in DOMAIN pages : pages[p].ref_count = 0}

\* the resident page accessed longest ago, by rank (0 when none)
OldestResident(rank) ==
    IF DOMAIN rank = {} THEN 0
    ELSE CHOOSE p \in DOMAIN rank : \A q \in DOMAIN rank : rank[p] <= rank[q]

\* the unpinned resident page accessed longest ago, by rank (0 when none)
OldestUnpinned(pages, rank) ==
    IF Unpinned(pages) = {} THEN 0
    ELSE CHOOSE p \in Unpinned(pages) : \A q \in Unpinned(pages) : rank[p] <= rank[q]

SetPM(pm) ==
    /\ pages_' = pm.pages
    /\ current_pages_' = pm.current_pages
    /\ next_page_id_' = pm.next_page_id
    /\ access_order_' = pm.access_order
    /\ UNCHANGED max_pages_

\* the record of a call other than allocate_page and deallocate_page
Last(op, ok) ==
    [op |-> op, ok |-> ok, victims |-> <<>>, victim_refs |-> <<>>,
     was_full |-> FALSE, resident_before |-> 0, unpinned_before |-> 0,
     oldest_resident |-> 0, oldest_unpinned |-> 0, target_pinned |-> FALSE]

AllocatePage ==
    /\ next_page_id_ <= MaxPageId
    /\ LET r == allocate_page(PM)
       IN /\ SetPM(r.pm)
          /\ pm_rank' = IF r.ret = INVALID_PAGE_ID THEN pm_rank
                        ELSE RankAdd(RankDropAll(pm_rank, r.victims), r.ret)
          /\ pm_last' = [Last("allocate_page", r.ret # INVALID_PAGE_ID) EXCEPT
                           !.victims = r.victims,
                           !.victim_refs = RefCountsOf(pages_, r.victims),
                           !.was_full = PoolFull(PM),
                           !.resident_before = Cardinality(DOMAIN pages_),
                           !.unpinned_before = Cardinality(Unpinned(pages_)),
                           !.oldest_resident = OldestResident(pm_rank),
                           !.oldest_unpinned = OldestUnpinned(pages_, pm_rank)]
    /\ UNCHANGED <<btVars, tbVars, hmVars, sqlVars>>

DeallocatePage(page_id) ==
    /\ LET r == deallocate_page(PM, page_id)
       IN /\ SetPM(r.pm)
          /\ pm_rank' = IF r.ret THEN RankDrop(pm_rank, page_id) ELSE pm_rank
          /\ pm_last' = [Last("deallocate_page", r.ret) EXCEPT
                           !.target_pinned = (page_id \in DOMAIN pages_
                                              /\ pages_[page_id].ref_count > 0)]
    /\ UNCHANGED <<btVars, tbVars, hmVars, sqlVars>>

GetPage(page_id) ==
    /\ LET r == get_page(PM, page_id)
       IN /\ SetPM(r.pm)
          /\ pm_rank' = RankTouch(pm_rank, page_id)
          /\ pm_last' = Last("get_page", r.found)
    /\ UNCHANGED <<btVars, tbVars, hmVars, sqlVars>>

\* get_page(page_id)->write(offset, data, length); fits: offset + length <= size_
WritePage(page_id, fits) ==
    /\ page_id \in DOMAIN pages_
    /\ LET g == get_page(PM, page_id)
       IN /\ SetPM(IF fits THEN [g.pm EXCEPT !.pages[page_id].dirty = TRUE] ELSE g.pm)
          /\ pm_rank' = RankTouch(pm_rank, page_id)
          /\ pm_last' = Last("write", fits)
    /\ UNCHANGED <<btVars, tbVars, hmVars, sqlVars>>

PinPage(page_id) ==
    /\ page_id \in DOMAIN pages_ => pages_[page_id].ref_count < MaxPin
    /\ LET r == pin_page(PM, page_id)
       IN /\ SetPM(r.pm)
          /\ pm_rank' = RankTouch(pm_rank, page_id)
          /\ pm_last' = Last("pin_page", r.ret)
    /\ UNCHANGED <<btVars, tbVars, hmVars, sqlVars>>

UnpinPage(page_id) ==
    /\ LET r == unpin_page(PM, page_id)
       IN /\ SetPM(r.pm)
          /\ pm_rank' = RankTouch(pm_rank, page_id)
          /\ pm_last' = Last("unpin_page", r.ret)
    /\ UNCHANGED <<btVars, tbVars, hmVars, sqlVars>>

FlushPage(page_id) ==
    /\ LET r == flush_page(PM, page_id)
       IN /\ SetPM(r.pm)
          /\ pm_rank' = RankTouch(pm_rank, page_id)
          /\ pm_last' = Last("flush_page", r.ret)
    /\ UNCHANGED <<btVars, tbVars, hmVars, sqlVars>>

FlushAll ==
    /\ SetPM(flush_all(PM))
    /\ pm_rank' = pm_rank
    /\ pm_last' = Last("flush_all", TRUE)
    /\ UNCHANGED <<btVars, tbVars, hmVars, sqlVars>>

Clear ==
    /\ SetPM(PageManager_clear(PM))
    /\ pm_rank' = EmptyMap
    /\ pm_last' = Last("clear", TRUE)
    /\ UNCHANGED <<btVars, tbVars, hmVars, sqlVars>>

NextPM ==
    \/ AllocatePage
    \/ \E page_id \in PageIds : DeallocatePage(page_id)
    \/ \E page_id \in PageIds : GetPage(page_id)
    \/ \E page_id \in PageIds, fits \in BOOLEAN : WritePage(page_id, fits)
    \/ \E page_id \in PageIds : PinPage(page_id)
    \/ \E page_id \in PageIds : UnpinPage(page_id)
    \/ \E page_id \in PageIds : FlushPage(page_id)
    \/ FlushAll
    \/ Clear

(***************************************************************************)
(* HashMap<K, V>: buckets_ is a sequence of chains, a chain a sequence of  *)
(* entries [key, value]; bucket index b of the code is position b + 1.     *)
(***************************************************************************)
\* HashMap::HashMap(): InitialBuckets empty chains
NewHashMap ==
    [buckets |-> [b \in 1..InitialBuckets |-> <<>>],
     bucket_count |-> InitialBuckets, size |-> 0]

\* hash_func_(key): std::hash of an integer is the integer itself
hash_func_(key) == key

\* HashMap::hash(key): the bucket index of key
hash(hm, key) == hash_func_(key) % hm.bucket_count

\* the position in chain of the first entry with this key, 0 when absent
RECURSIVE ChainIndexOf(_, _, _)
ChainIndexOf(chain, key, from) ==
    IF from > Len(chain) THEN 0
    ELSE IF chain[from].key = key THEN from
    ELSE ChainIndexOf(chain, key, from + 1)

\* HashMap::find(key): found tells whether the pointer is non-null
HashMap_find(hm, key) ==
    LET bucket == hm.buckets[hash(hm, key) + 1]
        pos == ChainIndexOf(bucket, key, 1)
    IN IF pos = 0 THEN [found |-> FALSE, value |-> 0]
       ELSE [found |-> TRUE, value |-> bucket[pos].value]

\* HashMap::needs_rehash(): one more entry would push the load factor
\* size_ / bucket_count_ over 0.75
needs_rehash(hm) == 4 * (hm.size + 1) > 3 * hm.bucket_count

\* all entries of the table in bucket order, chain order within a bucket
RECURSIVE AllEntries(_, _)
AllEntries(buckets, from) ==
    IF from > Len(buckets) THEN <<>>
    ELSE buckets[from] \o AllEntries(buckets, from + 1)

RECURSIVE HashMap_insert(_, _, _)
RECURSIVE rehash(_, _)
RECURSIVE ReinsertAll(_, _)

\* insert that overwrites the value of a key it finds
HashMap_insert_overwrite(hm, key, value) ==
    LET bucket_index == hash(hm, key)
        pos == ChainIndexOf(hm.buckets[bucket_index + 1], key, 1)
    IN IF pos # 0
       THEN [ret |-> TRUE,
             hm |-> [hm EXCEPT !.buckets[bucket_index + 1][pos].value = value]]
       ELSE LET hm1 == IF needs_rehash(hm) THEN rehash(hm, hm.bucket_count * 2)
                       ELSE hm
            IN [ret |-> TRUE,
                hm |-> [hm1 EXCEPT
                          !.buckets[hash(hm1, key) + 1] =
                              Append(hm1.buckets[hash(hm1, key) + 1],
                                     [key |-> key, value |-> value]),
                          !.size = hm1.size + 1]]

\* insert that makes room before it looks for the key
HashMap_insert_rehash_first(hm, key, value) ==
    LET hm1 == IF needs_rehash(hm) THEN rehash(hm, hm.bucket_count * 2) ELSE hm
        bucket_index == hash(hm1, key)
    IN IF HashMap_find(hm1, key).found
       THEN [ret |-> FALSE, hm |-> hm1]
       ELSE [ret |-> TRUE,
             hm |-> [hm1 EXCEPT
                       !.buckets[bucket_index + 1] =
                           Append(hm1.buckets[bucket_index + 1],
                                  [key |-> key, value |-> value]),
                       !.size = hm1.size + 1]]

\* HashMap::insert(key, value)
HashMap_insert(hm, key, value) ==
    IF HashMap_find(hm, key).found
    THEN [ret |-> FALSE, hm |-> hm]
    ELSE LET hm1 == IF needs_rehash(hm) THEN rehash(hm, hm.bucket_count * 2) ELSE hm
             bucket_index == hash(hm1, key)
         IN [ret |-> TRUE,
             hm |-> [hm1 EXCEPT
                       !.buckets[bucket_index + 1] =
                           Append(hm1.buckets[bucket_index + 1],
                                  [key |-> key, value |-> value]),
                       !.size = hm1.size + 1]]

\* the loop of rehash that inserts every saved entry again
ReinsertAll(hm, entries) ==
    IF entries = <<>> THEN hm
    ELSE ReinsertAll(HashMap_insert(hm, Head(entries).key, Head(entries).value).hm,
                     Tail(entries))

\* rehash that reinserts the entries of the first old bucket only
rehash_first_bucket(hm, new_bucket_count) ==
    IF new_bucket_count <= hm.bucket_count THEN hm
    ELSE ReinsertAll([buckets |-> [b \in 1..new_bucket_count |-> <<>>],
                      bucket_count |-> new_bucket_count, size |-> 0],
                     hm.buckets[1])

\* HashMap::rehash(new_bucket_count)
rehash(hm, new_bucket_count) ==
    IF new_bucket_count <= hm.bucket_count THEN hm
    ELSE ReinsertAll([buckets |-> [b \in 1..new_bucket_count |-> <<>>],
                      bucket_count |-> new_bucket_count, size |-> 0],
                     AllEntries(hm.buckets, 1))

\* remove that counts the entry out and leaves it in its chain
HashMap_remove_size_only(hm, key) ==
    LET bucket == hm.buckets[hash(hm, key) + 1]
    IN IF ChainIndexOf(bucket, key, 1) # 0
       THEN [ret |-> TRUE, hm |-> [hm EXCEPT !.size = hm.size - 1]]
       ELSE [ret |-> FALSE, hm |-> hm]

\* HashMap::remove(key)
HashMap_remove(hm, key) ==
    LET bucket_index == hash(hm, key)
        bucket == hm.buckets[bucket_index + 1]
        pos == ChainIndexOf(bucket, key, 1)
    IN IF pos # 0
       THEN [ret |-> TRUE,
             hm |-> [hm EXCEPT !.buckets[bucket_index + 1] = RemoveAt(bucket, pos),
                               !.size = hm.size - 1]]
       ELSE [ret |-> FALSE, hm |-> hm]

\* update that assigns to a copy of the value it found
HashMap_update_copy(hm, key, value) ==
    [ret |-> HashMap_find(hm, key).found, hm |-> hm]

\* HashMap::update(key, value)
HashMap_update(hm, key, value) ==
    LET bucket_index == hash(hm, key)
        existing == ChainIndexOf(hm.buckets[bucket_index + 1], key, 1)
    IN IF existing # 0
       THEN [ret |-> TRUE,
             hm |-> [hm EXCEPT !.buckets[bucket_index + 1][existing].value = value]]
       ELSE [ret |-> FALSE, hm |-> hm]

\* upsert that leaves the value of a key it finds as it is
HashMap_upsert_keep_old(hm, key, value) ==
    IF HashMap_find(hm, key).found
    THEN [ret |-> FALSE, hm |-> hm]
    ELSE [ret |-> TRUE, hm |-> HashMap_insert(hm, key, value).hm]

\* HashMap::upsert(key, value)
HashMap_upsert(hm, key, value) ==
    IF HashMap_find(hm, key).found
    THEN [ret |-> FALSE, hm |-> HashMap_update(hm, key, value).hm]
    ELSE [ret |-> TRUE, hm |-> HashMap_insert(hm, key, value).hm]

\* the keys callers pass to the HashMap<int, int>
\* clear that goes back to the buckets the map was built with
HashMap_clear_rebuild(hm) == NewHashMap

\* HashMap::clear()
HashMap_clear(hm) ==
    [hm EXCEPT !.buckets = [b \in 1..Len(hm.buckets) |-> <<>>], !.size = 0]

HashKeys == 1..MaxHashKey

HmLast(op, ok) == [op |-> op, ok |-> ok]

\* hm_stored after key was given the value
Store(key, value) ==
    [k \in DOMAIN hm_stored \cup {key} |-> IF k = key THEN value ELSE hm_stored[k]]

HmInsert(key, value) ==
    /\ LET r == HashMap_insert(hashmap_, key, value)
       IN /\ hashmap_' = r.hm
          /\ hm_stored' = IF r.ret THEN Store(key, value) ELSE hm_stored
          /\ hm_last' = HmLast("insert", r.ret)
    /\ UNCHANGED <<btVars, pmVars, tbVars, sqlVars>>

HmUpdate(key, value) ==
    /\ LET r == HashMap_update(hashmap_, key, value)
       IN /\ hashmap_' = r.hm
          /\ hm_stored' = IF r.ret THEN Store(key, value) ELSE hm_stored
          /\ hm_last' = HmLast("update", r.ret)
    /\ UNCHANGED <<btVars, pmVars, tbVars, sqlVars>>

HmUpsert(key, value) ==
    /\ LET r == HashMap_upsert(hashmap_, key, value)
       IN /\ hashmap_' = r.hm
          /\ hm_stored' = Store(key, value)
          /\ hm_last' = HmLast("upsert", r.ret)
    /\ UNCHANGED <<btVars, pmVars, tbVars, sqlVars>>

HmRemove(key) ==
    /\ LET r == HashMap_remove(hashmap_, key)
       IN /\ hashmap_' = r.hm
          /\ hm_stored' = IF r.ret
                          THEN [k \in DOMAIN hm_stored \ {key} |-> hm_stored[k]]
                          ELSE hm_stored
          /\ hm_last' = HmLast("remove", r.ret)
    /\ UNCHANGED <<btVars, pmVars, tbVars, sqlVars>>

HmFind(key) ==
    /\ hm_last' = HmLast("find", HashMap_find(hashmap_, key).found)
    /\ UNCHANGED <<hashmap_, hm_stored>>
    /\ UNCHANGED <<btVars, pmVars, tbVars, sqlVars>>

HmClear ==
    /\ hashmap_' = HashMap_clear(hashmap_)
    /\ hm_stored' = EmptyMap
    /\ hm_last' = HmLast("clear", TRUE)
    /\ UNCHANGED <<btVars, pmVars, tbVars, sqlVars>>

HmRehash(new_bucket_count) ==
    /\ hashmap_' = rehash(hashmap_, new_bucket_count)
    /\ hm_last' = HmLast("rehash", TRUE)
    /\ UNCHANGED hm_stored
    /\ UNCHANGED <<btVars, pmVars, tbVars, sqlVars>>

\* the calls on a HashMap<int, int>
NextHashMap ==
    \/ \E key \in HashKeys, value \in 1..MaxValue : HmInsert(key, value)
    \/ \E key \in HashKeys, value \in 1..MaxValue : HmUpdate(key, value)
    \/ \E key \in HashKeys, value \in 1..MaxValue : HmUpsert(key, value)
    \/ \E key \in HashKeys : HmRemove(key)

\* the bucket counts rehash is asked for
RehashInputs == 1..MaxBuckets

\* the calls on a HashMap<int, int>, find, clear and rehash included
NextHashMapAll ==
    \/ NextHashMap
    \/ \E key \in HashKeys : HmFind(key)
    \/ HmClear
    \/ \E new_bucket_count \in RehashInputs : HmRehash(new_bucket_count)

(***************************************************************************)
(* Index: BTreeIndex over BTree<pair<Value, uint64_t>> and HashIndex over  *)
(* HashMap<Value, uint64_t>.  A Value is an integer of Values; the pair    *)
(* (key, row_id) is the integer key * PairBase + row_id, whose order is    *)
(* the lexicographic order of the pairs.                                   *)
(***************************************************************************)
Values == 1..MaxValue

PairBase == MaxRowId + 2

\* std::make_pair(key, row_id)
make_pair(key, row_id) == key * PairBase + row_id

\* std::make_unique<BTreeIndex>()
NewBTreeIndex == [kind |-> "btree", hashmap |-> NewHashMap, btree |-> NewBTree]

\* std::make_unique<HashIndex>()
NewHashIndex == [kind |-> "hash", hashmap |-> NewHashMap, btree |-> NewBTree]

\* BTreeIndex::insert
BTreeIndex_insert(index, key, row_id) ==
    LET r == BTree_insert(index.btree, make_pair(key, row_id))
    IN [ret |-> r.ret, index |-> [index EXCEPT !.btree = r.bt]]

\* BTreeIndex::remove: not implemented
BTreeIndex_remove(index, key) == [ret |-> FALSE, index |-> index]

\* BTreeIndex::find
BTreeIndex_find(index, key) ==
    IF BTree_search(index.btree, make_pair(key, 0)) THEN 1 ELSE 0

\* BTreeIndex::range_query: a fresh vector, returned as it is
BTreeIndex_range_query(index, start, end) == <<>>

\* HashIndex::range_query
HashIndex_range_query(index, start, end) == <<>>

\* HashIndex::insert
HashIndex_insert(index, key, row_id) ==
    LET r == HashMap_insert(index.hashmap, key, row_id)
    IN [ret |-> r.ret, index |-> [index EXCEPT !.hashmap = r.hm]]

\* HashIndex::remove
HashIndex_remove(index, key) ==
    LET r == HashMap_remove(index.hashmap, key)
    IN [ret |-> r.ret, index |-> [index EXCEPT !.hashmap = r.hm]]

\* HashIndex::find
HashIndex_find(index, key) ==
    LET result == HashMap_find(index.hashmap, key)
    IN IF result.found THEN result.value ELSE 0

\* index->insert(key, row_id) through the Index interface
Index_insert(index, key, row_id) ==
    IF index.kind = "btree" THEN BTreeIndex_insert(index, key, row_id)
    ELSE HashIndex_insert(index, key, row_id)

\* index->remove(key) through the Index interface
Index_remove(index, key) ==
    IF index.kind = "btree" THEN BTreeIndex_remove(index, key)
    ELSE HashIndex_remove(index, key)

\* index->find(key) through the Index interface
Index_find(index, key) ==
    IF index.kind = "btree" THEN BTreeIndex_find(index, key)
    ELSE HashIndex_find(index, key)

(***************************************************************************)
(* Table over the schema (id, name)                                        *)
(***************************************************************************)
\* the columns of schema_, in order
ColumnNames == <<"id", "name">>

\* TableSchema::column_count
column_count == Len(ColumnNames)

\* TableSchema::get_column_index: SIZE_MAX for an unknown name
get_column_index(name) ==
    IF \E i \in 1..Len(ColumnNames) : ColumnNames[i] = name
    THEN (CHOOSE i \in 1..Len(ColumnNames) : ColumnNames[i] = name) - 1
    ELSE SIZE_MAX

\* TableSchema::get_column(name) != nullptr
has_column(name) == \E i \in 1..Len(ColumnNames) : ColumnNames[i] = name

\* Row::get_value(index)
get_value(row, index) == row.values[index + 1]

\* Row::size()
row_size(row) == Len(row.values)

\* the Table's fields as one record, for the operators below
TB == [rows |-> rows_, next_row_id |-> next_row_id_, indices |-> indices_]

\* std::find_if over rows_ for the row id: its position, 0 when absent
RECURSIVE FindRow(_, _, _)
FindRow(rows, row_id, from) ==
    IF from > Len(rows) THEN 0
    ELSE IF rows[from].id = row_id THEN from
    ELSE FindRow(rows, row_id, from + 1)

\* Table::get_row: found tells whether the pointer is non-null
get_row(tb, row_id) ==
    LET pos == FindRow(tb.rows, row_id, 1)
    IN IF pos = 0 THEN [found |-> FALSE, row |-> [id |-> 0, values |-> <<>>]]
       ELSE [found |-> TRUE, row |-> tb.rows[pos]]

\* insert_row that stores the row with the id the caller passed
insert_row_keep_id(tb, row) ==
    IF row_size(row) # column_count THEN [ret |-> 0, tb |-> tb]
    ELSE [ret |-> tb.next_row_id,
          tb |-> [tb EXCEPT !.rows = Append(tb.rows, row),
                            !.next_row_id = tb.next_row_id + 1]]

\* insert_row that takes the next id before it validates the row
insert_row_id_before_check(tb, row) ==
    IF row_size(row) # column_count
    THEN [ret |-> 0, tb |-> [tb EXCEPT !.next_row_id = tb.next_row_id + 1]]
    ELSE LET new_row == [id |-> tb.next_row_id, values |-> row.values]
         IN [ret |-> new_row.id,
             tb |-> [rows |-> Append(tb.rows, new_row),
                     next_row_id |-> tb.next_row_id + 1,
                     indices |-> [column_name \in DOMAIN tb.indices |->
                        LET column_index == get_column_index(column_name)
                            index == tb.indices[column_name]
                        IN IF column_index # SIZE_MAX /\ column_index < row_size(row)
                           THEN Index_insert(index, get_value(row, column_index),
                                             new_row.id).index
                           ELSE index]]]

\* Table::insert_row
insert_row(tb, row) ==
    IF row_size(row) # column_count THEN [ret |-> 0, tb |-> tb]
    ELSE LET new_row == [id |-> tb.next_row_id, values |-> row.values]
         IN [ret |-> new_row.id,
             tb |-> [rows |-> Append(tb.rows, new_row),
                     next_row_id |-> tb.next_row_id + 1,
                     indices |-> [column_name \in DOMAIN tb.indices |->
                        LET column_index == get_column_index(column_name)
                            index == tb.indices[column_name]
                        IN IF column_index # SIZE_MAX /\ column_index < row_size(row)
                           THEN Index_insert(index, get_value(row, column_index),
                                             new_row.id).index
                           ELSE index]]]

\* the body of update_row's loop for one index: remove old, add new
UpdateIndex(index, column_index, old_row, new_row, row_id) ==
    IF column_index = SIZE_MAX THEN index
    ELSE LET removed == IF column_index < row_size(old_row)
                        THEN Index_remove(index, get_value(old_row, column_index)).index
                        ELSE index
         IN IF column_index < row_size(new_row)
            THEN Index_insert(removed, get_value(new_row, column_index), row_id).index
            ELSE removed

\* update_row that assigns the new row and does not put the row id back
update_row_lose_id(tb, row_id, new_row) ==
    LET it == FindRow(tb.rows, row_id, 1)
    IN IF it = 0 THEN [ret |-> FALSE, tb |-> tb]
       ELSE [ret |-> TRUE,
             tb |-> [tb EXCEPT
                       !.indices = [column_name \in DOMAIN tb.indices |->
                           UpdateIndex(tb.indices[column_name],
                                       get_column_index(column_name),
                                       tb.rows[it], new_row, row_id)],
                       !.rows[it] = new_row]]

\* Table::update_row
update_row(tb, row_id, new_row) ==
    LET it == FindRow(tb.rows, row_id, 1)
    IN IF it = 0 THEN [ret |-> FALSE, tb |-> tb]
       ELSE [ret |-> TRUE,
             tb |-> [tb EXCEPT
                       !.indices = [column_name \in DOMAIN tb.indices |->
                           UpdateIndex(tb.indices[column_name],
                                       get_column_index(column_name),
                                       tb.rows[it], new_row, row_id)],
                       !.rows[it] = [id |-> row_id, values |-> new_row.values]]]

\* delete_row that erases the row and leaves the indices alone
delete_row_keep_indices(tb, row_id) ==
    LET it == FindRow(tb.rows, row_id, 1)
    IN IF it = 0 THEN [ret |-> FALSE, tb |-> tb]
       ELSE [ret |-> TRUE, tb |-> [tb EXCEPT !.rows = RemoveAt(tb.rows, it)]]

\* delete_row that erases the first row of storage instead of the row found
delete_row_erase_front(tb, row_id) ==
    LET it == FindRow(tb.rows, row_id, 1)
    IN IF it = 0 THEN [ret |-> FALSE, tb |-> tb]
       ELSE [ret |-> TRUE,
             tb |-> [tb EXCEPT
                       !.indices = [column_name \in DOMAIN tb.indices |->
                           LET column_index == get_column_index(column_name)
                               index == tb.indices[column_name]
                           IN IF column_index # SIZE_MAX
                                 /\ column_index < row_size(tb.rows[it])
                              THEN Index_remove(index,
                                       get_value(tb.rows[it], column_index)).index
                              ELSE index],
                       !.rows = RemoveAt(tb.rows, 1)]]

\* Table::delete_row
delete_row(tb, row_id) ==
    LET it == FindRow(tb.rows, row_id, 1)
    IN IF it = 0 THEN [ret |-> FALSE, tb |-> tb]
       ELSE [ret |-> TRUE,
             tb |-> [tb EXCEPT
                       !.indices = [column_name \in DOMAIN tb.indices |->
                           LET column_index == get_column_index(column_name)
                               index == tb.indices[column_name]
                           IN IF column_index # SIZE_MAX
                                 /\ column_index < row_size(tb.rows[it])
                              THEN Index_remove(index,
                                       get_value(tb.rows[it], column_index)).index
                              ELSE index],
                       !.rows = RemoveAt(tb.rows, it)]]

\* the loop running over rows[from..] from the last row to the first
RECURSIVE BuildIndex_backwards(_, _, _, _)
BuildIndex_backwards(index, rows, from, column_index) ==
    IF from > Len(rows) THEN index
    ELSE LET rest == BuildIndex_backwards(index, rows, from + 1, column_index)
         IN IF column_index < row_size(rows[from])
            THEN Index_insert(rest, get_value(rows[from], column_index),
                              rows[from].id).index
            ELSE rest

\* the loop of create_index that fills the new index from rows[from..]
RECURSIVE BuildIndex(_, _, _, _)
BuildIndex(index, rows, from, column_index) ==
    IF from > Len(rows) THEN index
    ELSE BuildIndex(IF column_index < row_size(rows[from])
                    THEN Index_insert(index, get_value(rows[from], column_index),
                                      rows[from].id).index
                    ELSE index,
                    rows, from + 1, column_index)

\* create_index that registers the fresh index without filling it
create_index_unfilled(tb, column_name, index_type) ==
    IF ~has_column(column_name) THEN [ret |-> FALSE, tb |-> tb]
    ELSE IF column_name \in DOMAIN tb.indices THEN [ret |-> FALSE, tb |-> tb]
    ELSE IF index_type \notin {"btree", "hash"} THEN [ret |-> FALSE, tb |-> tb]
    ELSE LET index == IF index_type = "btree" THEN NewBTreeIndex ELSE NewHashIndex
         IN [ret |-> TRUE,
             tb |-> [tb EXCEPT !.indices =
                       [c \in DOMAIN tb.indices \cup {column_name} |->
                          IF c = column_name THEN index ELSE tb.indices[c]]]]

\* create_index that does not look for an index already on the column
create_index_over_existing(tb, column_name, index_type) ==
    IF ~has_column(column_name) THEN [ret |-> FALSE, tb |-> tb]
    ELSE IF index_type \notin {"btree", "hash"} THEN [ret |-> FALSE, tb |-> tb]
    ELSE LET index == IF index_type = "btree" THEN NewBTreeIndex ELSE NewHashIndex
             built == BuildIndex(index, tb.rows, 1, get_column_index(column_name))
         IN [ret |-> TRUE,
             tb |-> [tb EXCEPT !.indices =
                       [c \in DOMAIN tb.indices \cup {column_name} |->
                          IF c = column_name THEN built ELSE tb.indices[c]]]]

\* Table::create_index
create_index(tb, column_name, index_type) ==
    IF ~has_column(column_name) THEN [ret |-> FALSE, tb |-> tb]
    ELSE IF column_name \in DOMAIN tb.indices THEN [ret |-> FALSE, tb |-> tb]
    ELSE IF index_type \notin {"btree", "hash"} THEN [ret |-> FALSE, tb |-> tb]
    ELSE LET index == IF index_type = "btree" THEN NewBTreeIndex ELSE NewHashIndex
             built == BuildIndex(index, tb.rows, 1, get_column_index(column_name))
         IN [ret |-> TRUE,
             tb |-> [tb EXCEPT !.indices =
                       [c \in DOMAIN tb.indices \cup {column_name} |->
                          IF c = column_name THEN built ELSE tb.indices[c]]]]

\* Table::drop_index
drop_index(tb, column_name) ==
    IF column_name \in DOMAIN tb.indices
    THEN [ret |-> TRUE,
          tb |-> [tb EXCEPT !.indices =
                    [c \in DOMAIN tb.indices \ {column_name} |-> tb.indices[c]]]]
    ELSE [ret |-> FALSE, tb |-> tb]

\* Table::clear
Table_clear(tb) == [rows |-> <<>>, next_row_id |-> 1, indices |-> EmptyMap]

\* the rows callers pass: 0 in column id and a value of Values in column name,
\* one row with a value too few and one with a value too many, and one row
\* that carries the id of another row
RowInputs ==
    {[id |-> 0, values |-> <<0, v>>] : v \in Values}
    \cup {[id |-> 0, values |-> <<0>>], [id |-> 0, values |-> <<0, 1, 1>>]}
    \cup {[id |-> 2, values |-> <<0, 1>>]}

\* the column names callers pass: an index is asked for on column name and on
\* a column the schema does not have
ColumnInputs == {"name", "age"}

\* the index kinds callers pass
KindInputs == {"btree", "hash", "rtree"}

\* the index kinds callers pass when only hash indices are asked for
HashKindInputs == {"hash", "rtree"}

RowIds == 1..MaxRowId

SetTB(tb) ==
    /\ rows_' = tb.rows
    /\ next_row_id_' = tb.next_row_id
    /\ indices_' = tb.indices

TbLast(op, ok) == [op |-> op, ok |-> ok]

\* tree_inserted after every btree index was handed the indexed value of row
NoteInsert(row) ==
    [c \in DOMAIN tree_inserted |->
        IF get_column_index(c) < row_size(row)
        THEN tree_inserted[c] \cup {get_value(row, get_column_index(c))}
        ELSE tree_inserted[c]]

\* tree_inserted after create_index built a btree index on column_name
NoteBuild(column_name) ==
    [c \in DOMAIN tree_inserted \cup {column_name} |->
        IF c = column_name
        THEN {get_value(rows_[i], get_column_index(c)) :
                i \in {j \in 1..Len(rows_) : get_column_index(c) < row_size(rows_[j])}}
        ELSE tree_inserted[c]]

InsertRow(row) ==
    /\ next_row_id_ <= MaxRowId
    /\ Len(rows_) < MaxRows
    /\ LET r == insert_row(TB, row)
       IN /\ SetTB(r.tb)
          /\ tb_last' = TbLast("insert_row", r.ret # 0)
          /\ tree_inserted' = IF r.ret # 0 THEN NoteInsert(row) ELSE tree_inserted
    /\ UNCHANGED <<btVars, pmVars, hmVars, sqlVars>>

UpdateRow(row_id, new_row) ==
    /\ LET r == update_row(TB, row_id, new_row)
       IN /\ SetTB(r.tb)
          /\ tb_last' = TbLast("update_row", r.ret)
          /\ tree_inserted' = IF r.ret THEN NoteInsert(new_row) ELSE tree_inserted
    /\ UNCHANGED <<btVars, pmVars, hmVars, sqlVars>>

DeleteRow(row_id) ==
    /\ LET r == delete_row(TB, row_id)
       IN /\ SetTB(r.tb)
          /\ tb_last' = TbLast("delete_row", r.ret)
          /\ UNCHANGED tree_inserted
    /\ UNCHANGED <<btVars, pmVars, hmVars, sqlVars>>

CreateIndex(column_name, index_type) ==
    /\ LET r == create_index(TB, column_name, index_type)
       IN /\ SetTB(r.tb)
          /\ tb_last' = TbLast("create_index", r.ret)
          /\ tree_inserted' = IF r.ret /\ index_type = "btree"
                              THEN NoteBuild(column_name) ELSE tree_inserted
    /\ UNCHANGED <<btVars, pmVars, hmVars, sqlVars>>

DropIndex(column_name) ==
    /\ LET r == drop_index(TB, column_name)
       IN /\ SetTB(r.tb)
          /\ tb_last' = TbLast("drop_index", r.ret)
          /\ tree_inserted' = [c \in DOMAIN tree_inserted \ {column_name} |->
                                  tree_inserted[c]]
    /\ UNCHANGED <<btVars, pmVars, hmVars, sqlVars>>

TableClear ==
    /\ SetTB(Table_clear(TB))
    /\ tb_last' = TbLast("clear", TRUE)
    /\ tree_inserted' = EmptyMap
    /\ UNCHANGED <<btVars, pmVars, hmVars, sqlVars>>

\* the calls on a Table whose callers pass the index kinds of kinds
NextTableOf(kinds) ==
    \/ \E row \in RowInputs : InsertRow(row)
    \/ \E row_id \in RowIds, new_row \in RowInputs : UpdateRow(row_id, new_row)
    \/ \E row_id \in RowIds : DeleteRow(row_id)
    \/ \E column_name \in ColumnInputs, index_type \in kinds :
          CreateIndex(column_name, index_type)
    \/ \E column_name \in ColumnInputs : DropIndex(column_name)
    \/ TableClear

NextTable == NextTableOf(KindInputs)

NextHashTable == NextTableOf(HashKindInputs)

(***************************************************************************)
(* Parser (query/parser.cpp).  A statement text is given as the token      *)
(* sequence Tokenizer::tokenize makes of it: keywords and identifiers in   *)
(* upper case, punctuation and numbers as they are.  The parser state is   *)
(* [tokens, current_pos, error_message]; a message is the sequence of the  *)
(* strings the code concatenates.  Number literals are the one-digit       *)
(* tokens; string literals and SELECT statements are not submitted.        *)
(***************************************************************************)
NumberTokens == <<"0", "1", "2", "3", "4", "5", "6", "7", "8", "9">>

\* stands for the NULL storage::Value
NullValue == -1

\* Tokenizer::current_token
current_token(ps) ==
    IF ps.current_pos < Len(ps.tokens) THEN ps.tokens[ps.current_pos + 1] ELSE ""

\* Tokenizer::next_token (the parser ignores what it returns)
next_token(ps) ==
    IF ps.current_pos < Len(ps.tokens)
    THEN [ps EXCEPT !.current_pos = ps.current_pos + 1]
    ELSE ps

\* Tokenizer::at_end
at_end(ps) == ps.current_pos >= Len(ps.tokens)

\* Parser::expect_token
expect_token(ps, expected) ==
    IF current_token(ps) = expected
    THEN [ret |-> TRUE, ps |-> next_token(ps)]
    ELSE [ret |-> FALSE,
          ps |-> [ps EXCEPT !.error_message =
                     <<"Expected '", expected, "', got '", current_token(ps), "'">>]]

\* a parse function returning nullptr
NullStatement(ps) == [stmt |-> [type |-> "null"], ps |-> ps]

\* error_message_ = message; return nullptr
ParseError(ps, message) == NullStatement([ps EXCEPT !.error_message = message])

\* std::stoll of a number token
stoll(token) == (CHOOSE n \in 1..Len(NumberTokens) : NumberTokens[n] = token) - 1

\* Parser::parse_literal
parse_literal(ps) ==
    LET token == current_token(ps)
    IN [value |-> IF \E n \in 1..Len(NumberTokens) : NumberTokens[n] = token
                  THEN stoll(token)
                  ELSE NullValue,
        ps |-> next_token(ps)]

\* the do-while loop of parse_insert over the value list
RECURSIVE ParseValues(_, _)
ParseValues(ps, values) ==
    LET lit == parse_literal(ps)
        pushed == Append(values, lit.value)
    IN IF current_token(lit.ps) = ","
       THEN IF ~at_end(next_token(lit.ps))
            THEN ParseValues(next_token(lit.ps), pushed)
            ELSE [values |-> pushed, ps |-> next_token(lit.ps)]
       ELSE [values |-> pushed, ps |-> lit.ps]

\* Parser::parse_insert
parse_insert(ps) ==
    LET e1 == expect_token(ps, "INSERT")
        e2 == expect_token(e1.ps, "INTO")
        table_name == current_token(e2.ps)
        e3 == expect_token(next_token(e2.ps), "VALUES")
        e4 == expect_token(e3.ps, "(")
        list == ParseValues(e4.ps, <<>>)
        e5 == expect_token(list.ps, ")")
    IN IF ~e1.ret THEN NullStatement(e1.ps)
       ELSE IF ~e2.ret THEN NullStatement(e2.ps)
       ELSE IF table_name = "" THEN ParseError(e2.ps, <<"Expected table name">>)
       ELSE IF ~e3.ret THEN NullStatement(e3.ps)
       ELSE IF ~e4.ret THEN NullStatement(e4.ps)
       ELSE IF ~e5.ret THEN NullStatement(e5.ps)
       ELSE [stmt |-> [type |-> "INSERT", table_name |-> table_name,
                       columns |-> <<>>, values |-> list.values],
             ps |-> e5.ps]

\* Parser::parse_column_type
parse_column_type(type_str) ==
    IF type_str \in {"INTEGER", "INT"} THEN "INTEGER"
    ELSE IF type_str \in {"TEXT", "VARCHAR"} THEN "TEXT"
    ELSE IF type_str \in {"REAL", "FLOAT", "DOUBLE"} THEN "REAL"
    ELSE "TEXT"

\* the do-while loop of parse_create_table over the column list; ok is
\* false when a column name is missing
RECURSIVE ParseColumns(_, _)
ParseColumns(ps, columns) ==
    LET column_name == current_token(ps)
        type_str == current_token(next_token(ps))
        after_type == next_token(next_token(ps))
        pushed == Append(columns, [name |-> column_name,
                                   type |-> parse_column_type(type_str)])
    IN IF column_name = ""
       THEN [ok |-> FALSE, columns |-> columns,
             ps |-> [ps EXCEPT !.error_message = <<"Expected column name">>]]
       ELSE IF current_token(after_type) = ","
       THEN IF ~at_end(next_token(after_type))
            THEN ParseColumns(next_token(after_type), pushed)
            ELSE [ok |-> TRUE, columns |-> pushed, ps |-> next_token(after_type)]
       ELSE [ok |-> TRUE, columns |-> pushed, ps |-> after_type]

\* Parser::parse_create_table
parse_create_table(ps) ==
    LET e1 == expect_token(ps, "CREATE")
        e2 == expect_token(e1.ps, "TABLE")
        table_name == current_token(e2.ps)
        e3 == expect_token(next_token(e2.ps), "(")
        list == ParseColumns(e3.ps, <<>>)
        e4 == expect_token(list.ps, ")")
    IN IF ~e1.ret THEN NullStatement(e1.ps)
       ELSE IF ~e2.ret THEN NullStatement(e2.ps)
       ELSE IF table_name = "" THEN ParseError(e2.ps, <<"Expected table name">>)
       ELSE IF ~e3.ret THEN NullStatement(e3.ps)
       ELSE IF ~list.ok THEN NullStatement(list.ps)
       ELSE IF ~e4.ret THEN NullStatement(e4.ps)
       ELSE [stmt |-> [type |-> "CREATE_TABLE", table_name |-> table_name,
                       columns |-> list.columns],
             ps |-> e4.ps]

\* Parser::parse_drop_table
parse_drop_table(ps) ==
    LET e1 == expect_token(ps, "DROP")
        e2 == expect_token(e1.ps, "TABLE")
        table_name == current_token(e2.ps)
    IN IF ~e1.ret THEN NullStatement(e1.ps)
       ELSE IF ~e2.ret THEN NullStatement(e2.ps)
       ELSE IF table_name = "" THEN ParseError(e2.ps, <<"Expected table name">>)
       ELSE [stmt |-> [type |-> "DROP_TABLE", table_name |-> table_name],
             ps |-> e2.ps]

\* Parser::parse_update
parse_update(ps) == ParseError(ps, <<"UPDATE not yet implemented">>)

\* Parser::parse_delete
parse_delete(ps) == ParseError(ps, <<"DELETE not yet implemented">>)

\* Parser::parse on the tokens of the text: the statement, [type |-> "null"]
\* for nullptr, and the parser with its error_message_
Parser_parse(tokens) ==
    LET ps == [tokens |-> tokens, current_pos |-> 0, error_message |-> <<>>]
        first_token == current_token(ps)
    IN IF at_end(ps) THEN ParseError(ps, <<"Empty query">>)
       ELSE IF first_token = "INSERT" THEN parse_insert(ps)
       ELSE IF first_token = "UPDATE" THEN parse_update(ps)
       ELSE IF first_token = "DELETE" THEN parse_delete(ps)
       ELSE IF first_token = "CREATE" THEN parse_create_table(ps)
       ELSE IF first_token = "DROP" THEN parse_drop_table(ps)
       ELSE ParseError(ps, <<"Unsupported statement type: ", first_token>>)

(***************************************************************************)
(* QueryPlanner and QueryExecutor (query/executor.cpp).  The executor is   *)
(* [table_refs, table]: CREATE TABLE is submitted for one table name and   *)
(* with the schema (id, name) only, so the executor owns at most one       *)
(* Table, and table is that Table (a fresh one while none exists).  A      *)
(* QueryResult is [success, affected_rows, error_message]; its             *)
(* constructors are in executor.h, which is not part of the sources, and   *)
(* are read off their uses: a result built from a message is the one       *)
(* is_success() is false for.                                              *)
(***************************************************************************)
\* QueryResult(size_t affected_rows)
QueryResult_affected(affected_rows) ==
    [success |-> TRUE, affected_rows |-> affected_rows, error_message |-> <<>>]

\* QueryResult(const std::string& error)
QueryResult_error(error) ==
    [success |-> FALSE, affected_rows |-> 0, error_message |-> error]

\* Table::Table(schema, page_manager)
NewTable == [rows |-> <<>>, next_row_id |-> 1, indices |-> EmptyMap]

EX == [table_refs |-> table_refs_, table |-> TB]

\* a planner function returning nullptr
NullPlan == [node |-> "null"]

\* QueryPlanner::plan_insert
plan_insert(ex, stmt) ==
    IF stmt.table_name \notin ex.table_refs
    THEN NullPlan
    ELSE [node |-> "InsertNode", row |-> [id |-> 0, values |-> stmt.values]]

\* QueryPlanner::plan_update
plan_update(ex, stmt) == NullPlan

\* QueryPlanner::plan_delete
plan_delete(ex, stmt) == NullPlan

\* QueryPlanner::create_plan
create_plan(ex, stmt) ==
    IF stmt.type = "INSERT" THEN plan_insert(ex, stmt)
    ELSE IF stmt.type = "UPDATE" THEN plan_update(ex, stmt)
    ELSE IF stmt.type = "DELETE" THEN plan_delete(ex, stmt)
    ELSE NullPlan

\* InsertNode::execute
InsertNode_execute(ex, plan) ==
    LET r == insert_row(ex.table, plan.row)
    IN [result |-> IF r.ret = 0
                   THEN QueryResult_error(<<"Failed to insert row">>)
                   ELSE QueryResult_affected(1),
        ex |-> [ex EXCEPT !.table = r.tb]]

\* QueryExecutor::create_table
create_table(ex, name) ==
    IF name \in ex.table_refs
    THEN [ret |-> FALSE, ex |-> ex]
    ELSE [ret |-> TRUE,
          ex |-> [table_refs |-> ex.table_refs \cup {name}, table |-> NewTable]]

\* QueryExecutor::drop_table
drop_table(ex, name) ==
    IF name \in ex.table_refs
    THEN [ret |-> TRUE,
          ex |-> [table_refs |-> ex.table_refs \ {name}, table |-> NewTable]]
    ELSE [ret |-> FALSE, ex |-> ex]

\* QueryExecutor::execute
QueryExecutor_execute(ex, stmt) ==
    IF stmt.type = "CREATE_TABLE"
    THEN LET r == create_table(ex, stmt.table_name)
         IN [result |-> IF r.ret THEN QueryResult_affected(0)
                        ELSE QueryResult_error(<<"Failed to create table">>),
             ex |-> r.ex]
    ELSE IF stmt.type = "DROP_TABLE"
    THEN LET r == drop_table(ex, stmt.table_name)
         IN [result |-> IF r.ret THEN QueryResult_affected(0)
                        ELSE QueryResult_error(<<"Failed to drop table">>),
             ex |-> r.ex]
    ELSE LET plan == create_plan(ex, stmt)
         IN IF plan.node = "null"
            THEN [result |-> QueryResult_error(<<"Failed to create execution plan">>),
                  ex |-> ex]
            ELSE InsertNode_execute(ex, plan)

\* QueryExecutor::execute_sql on the tokens of the text
execute_sql(ex, sql) ==
    LET parsed == Parser_parse(sql)
    IN IF parsed.stmt.type = "null"
       THEN [result |-> QueryResult_error(<<"Parse error: ">> \o parsed.ps.error_message),
             ex |-> ex]
       ELSE QueryExecutor_execute(ex, parsed.stmt)

\* the table name statements are submitted for, and a name no table has
TableNames == {"USERS", "ORDERS"}

\* the number token of a value
Number(n) == NumberTokens[n + 1]

CreateTableSql(name) ==
    <<"CREATE", "TABLE", name, "(", "ID", "INT", ",", "NAME", "TEXT", ")">>

DropTableSql(name) == <<"DROP", "TABLE", name>>

InsertSql(name, values) ==
    <<"INSERT", "INTO", name, "VALUES", "(">>
        \o [i \in 1..(2 * Len(values) - 1) |->
               IF i % 2 = 1 THEN Number(values[(i + 1) \div 2]) ELSE ","]
        \o <<")">>

UpdateSql(name, v, id) ==
    <<"UPDATE", name, "SET", "NAME", "=", Number(v), "WHERE", "ID", "=", Number(id)>>

DeleteSql(name, id) == <<"DELETE", "FROM", name, "WHERE", "ID", "=", Number(id)>>

\* the values of the id and name columns in the statements
SqlValues == 0..MaxValue

\* the statements submitted: CREATE TABLE USERS (ID INT, NAME TEXT), DROP
\* TABLE, INSERT with one or two values, UPDATE, DELETE, an INSERT without
\* INTO, a statement of an unknown kind and the empty text
SqlInputs ==
    {CreateTableSql("USERS")}
    \cup {DropTableSql(name) : name \in TableNames}
    \cup {InsertSql(name, <<id, v>>) : name \in TableNames, id \in SqlValues, v \in SqlValues}
    \cup {InsertSql("USERS", <<id>>) : id \in SqlValues}
    \cup {UpdateSql(name, v, id) : name \in TableNames, v \in SqlValues, id \in SqlValues}
    \cup {DeleteSql(name, id) : name \in TableNames, id \in SqlValues}
    \cup {<<"INSERT", "USERS">>, <<"TRUNCATE", "USERS">>, <<>>}

ExecuteSql(sql) ==
    /\ (Len(sql) > 0 /\ sql[1] = "INSERT") =>
          (next_row_id_ <= MaxRowId /\ Len(rows_) < MaxRows)
    /\ LET r == execute_sql(EX, sql)
       IN /\ table_refs_' = r.ex.table_refs
          /\ SetTB(r.ex.table)
          /\ sql_result' = r.result
    /\ UNCHANGED <<tb_last, tree_inserted>>
    /\ UNCHANGED <<btVars, pmVars, hmVars>>

NextSQL == \E sql \in SqlInputs : ExecuteSql(sql)

NextBTree ==
    \/ \E key \in Keys : BTreeInsert(key)
    \/ BTreeClear

\* BTree::BTree(), PageManager::PageManager(page_size, max_pages) and
\* Table::Table(schema, page_manager): a pool of pool_size pages
InitWith(pool_size) ==
    /\ root_ = NewBTree.root
    /\ size_ = NewBTree.size
    /\ bt_called = {}
    /\ bt_repeat = FALSE
    /\ bt_last = [op |-> "none", key |-> 0, ret |-> TRUE,
                  was_called |-> FALSE, size_before |-> 0]
    /\ pages_ = EmptyMap
    /\ current_pages_ = 0
    /\ next_page_id_ = 1
    /\ max_pages_ = pool_size
    /\ access_order_ = <<>>
    /\ pm_rank = EmptyMap
    /\ pm_last = Last("none", TRUE)
    /\ rows_ = <<>>
    /\ next_row_id_ = 1
    /\ indices_ = EmptyMap
    /\ tb_last = TbLast("none", TRUE)
    /\ tree_inserted = EmptyMap
    /\ hashmap_ = NewHashMap
    /\ hm_stored = EmptyMap
    /\ hm_last = HmLast("none", TRUE)
    /\ table_refs_ = {}
    /\ sql_result = QueryResult_affected(0)

Init == InitWith(1)

InitPM == \E pool_size \in 1..MaxPoolSize : InitWith(pool_size)

SpecBTree == Init /\ [][NextBTree]_vars

\* the calls on a BTree<int, 5> with keys of 1..MaxDeepKey
NextBTreeDeep == \E key \in 1..MaxDeepKey : BTreeInsertDeep(key)

SpecBTreeDeep == Init /\ [][NextBTreeDeep]_vars

SpecPM == InitPM /\ [][NextPM]_vars

SpecTable == Init /\ [][NextTable]_vars

SpecHashMap == Init /\ [][NextHashMap]_vars

SpecHashMapAll == Init /\ [][NextHashMapAll]_vars

\* the Table with hash indices only
SpecHashTable == Init /\ [][NextHashTable]_vars

\* the QueryExecutor
SpecSQL == Init /\ [][NextSQL]_vars

(***************************************************************************)
(* Properties of the BTree                                                 *)
(***************************************************************************)
\* C1: after insert calls with pairwise distinct keys, search(k) is true for
\* every key insert was called with and false for every other key.
C1_SearchFindsExactlyTheInserted ==
    ~bt_repeat => \A k \in Keys : BTree_search(BT, k) <=> k \in bt_called

\* C2: insert of a key that insert was called with before returns false and
\* leaves size() as it was.
C2_ReinsertIsRejected ==
    (bt_last.op = "insert" /\ bt_last.was_called)
        => (bt_last.ret = FALSE /\ size_ = bt_last.size_before)

(***************************************************************************)
(* Properties of the PageManager                                           *)
(***************************************************************************)
pmCore == <<pages_, current_pages_, next_page_id_, access_order_>>

\* C3: no operation takes a page with a pin count above 0 out of the pool.
C3_PinnedPagesStayResident ==
    [][\A p \in DOMAIN pages_ :
          pages_[p].ref_count > 0 => p \in DOMAIN pages_']_vars

\* C4: every page select_victim chooses for allocate_page has pin count 0.
C4_VictimIsUnpinned ==
    \A i \in 1..Len(pm_last.victims) : pm_last.victim_refs[i] = 0

\* C4 happens: a page was evicted although the page accessed longest ago was
\* pinned (and so was passed over).
C4_Witness ==
    /\ pm_last.op = "allocate_page"
    /\ pm_last.victims # <<>>
    /\ pm_last.oldest_resident # pm_last.victims[1]
    /\ pm_last.oldest_resident \in DOMAIN pages_
    /\ pages_[pm_last.oldest_resident].ref_count > 0

\* C5: the number of resident pages never exceeds max_pages.
C5_ResidentWithinMax ==
    /\ Cardinality(DOMAIN pages_) <= max_pages_
    /\ current_pages_ = Cardinality(DOMAIN pages_)

\* C5 happens: allocate_page succeeded on a full pool, which is still full.
C5_Witness ==
    /\ pm_last.op = "allocate_page"
    /\ pm_last.ok
    /\ pm_last.was_full
    /\ Cardinality(DOMAIN pages_) = max_pages_

C7_AllocateEvictsOneOrFails ==
    pm_last.op = "allocate_page" =>
        /\ (pm_last.was_full /\ pm_last.unpinned_before >= 1) =>
              /\ pm_last.ok
              /\ Len(pm_last.victims) = 1
              /\ pm_last.victims[1] \notin DOMAIN pages_
              /\ (next_page_id_ - 1) \in DOMAIN pages_
              /\ Cardinality(DOMAIN pages_) = pm_last.resident_before
        /\ ~pm_last.ok => (pm_last.was_full /\ pm_last.unpinned_before = 0)

\* C7 happens: a full pool with a pinned and an unpinned page took a new page.
C7_Witness ==
    /\ pm_last.op = "allocate_page"
    /\ pm_last.was_full
    /\ pm_last.ok
    /\ pm_last.unpinned_before >= 1
    /\ pm_last.unpinned_before < pm_last.resident_before

\* C8: a failing allocate_page leaves the resident pages, their pin counts and
\* dirty flags, the access order and the next page id as they were.
C8_FailedAllocateChangesNothing ==
    [][(pm_last'.op = "allocate_page" /\ ~pm_last'.ok) => UNCHANGED pmCore]_vars

\* C8 happens: allocate_page failed on a pool that holds a dirty page.
C8_Witness ==
    /\ pm_last.op = "allocate_page"
    /\ ~pm_last.ok
    /\ \E p \in DOMAIN pages_ : pages_[p].dirty

\* C9: deallocate_page on a pinned page returns false and leaves the page
\* resident with its pin count, dirty flag and place in the access order.
C9_DeallocatePinnedFails ==
    [][(pm_last'.op = "deallocate_page" /\ pm_last'.target_pinned)
          => (~pm_last'.ok /\ UNCHANGED pmCore)]_vars

\* C9 happens: deallocate_page was refused for a pinned page that is dirty and
\* not the most recently used page.
C9_Witness ==
    /\ pm_last.op = "deallocate_page"
    /\ pm_last.target_pinned
    /\ ~pm_last.ok
    /\ \E p \in DOMAIN pages_ :
          /\ pages_[p].ref_count > 0
          /\ pages_[p].dirty
          /\ access_order_[Len(access_order_)] # p

(***************************************************************************)
(* Properties of the Table and its indices                                 *)
(***************************************************************************)
\* row holds value v in the column column_name
Holds(row, column_name, v) ==
    LET column_index == get_column_index(column_name)
    IN column_index < Len(row.values) /\ row.values[column_index + 1] = v

\* some row of the table has this id and holds v in the column
LiveRowHolds(row_id, column_name, v) ==
    \E i \in 1..Len(rows_) : rows_[i].id = row_id /\ Holds(rows_[i], column_name, v)

\* C10: every entry (v -> id) of a hash index on a column refers to a row that
\* is in the table and holds v in that column; so does a non-zero find(v).
C10_HashIndexEntriesAreLive ==
    \A c \in DOMAIN indices_ :
        indices_[c].kind = "hash" =>
            /\ \A b \in 1..Len(indices_[c].hashmap.buckets) :
                  \A i \in 1..Len(indices_[c].hashmap.buckets[b]) :
                      LET e == indices_[c].hashmap.buckets[b][i]
                      IN LiveRowHolds(e.value, c, e.key)
            /\ \A v \in Values :
                  HashIndex_find(indices_[c], v) # 0
                      => LiveRowHolds(HashIndex_find(indices_[c], v), c, v)

\* C10 happens: a row was deleted and the hash index on name still has an
\* entry for a row that stayed.
C10_Witness ==
    /\ tb_last.op = "delete_row"
    /\ tb_last.ok
    /\ "name" \in DOMAIN indices_
    /\ indices_["name"].kind = "hash"
    /\ indices_["name"].hashmap.size >= 1
    /\ Len(rows_) >= 1

\* C11: when delete_row(id) succeeds on a row that holds v in a column with a
\* hash index, find(v) on that index returns 0 afterwards.
C11_DeletedValueIsNotFound ==
    [][\A row_id \in RowIds :
          (DeleteRow(row_id) /\ tb_last'.ok) =>
              \A c \in DOMAIN indices_ :
                  indices_[c].kind = "hash" =>
                      \A v \in Values :
                          (\E i \in 1..Len(rows_) :
                               rows_[i].id = row_id /\ Holds(rows_[i], c, v))
                          => /\ c \in DOMAIN indices_'
                             /\ HashIndex_find(indices_'[c], v) = 0]_vars

\* C11 happens: of the rows (1, 1) and (2, 2) under a hash index on name, row 2
\* was deleted; find(1) still resolves to row 1 and find(2) returns 0.
C11_Witness ==
    /\ tb_last.op = "delete_row"
    /\ tb_last.ok
    /\ next_row_id_ = 3
    /\ rows_ = <<[id |-> 1, values |-> <<0, 1>>]>>
    /\ "name" \in DOMAIN indices_
    /\ indices_["name"].kind = "hash"
    /\ HashIndex_find(indices_["name"], 1) = 1
    /\ HashIndex_find(indices_["name"], 2) = 0

\* the entry (v, row_id) is in the tree of a btree index
TreeHolds(index, v, row_id) == BTree_search(index.btree, make_pair(v, row_id))

\* C12: BTreeIndex::remove returns false and leaves the tree alone, so when
\* delete_row or update_row succeeds on a row whose entry (old value, row id)
\* is in the tree of a btree index, the entry is still in that tree afterwards.
C12_TreeEntriesSurvive ==
    [][\A row_id \in RowIds :
          (/\ \/ DeleteRow(row_id)
              \/ \E new_row \in RowInputs : UpdateRow(row_id, new_row)
           /\ tb_last'.ok) =>
              \A c \in DOMAIN indices_ :
                  indices_[c].kind = "btree" =>
                      \A v \in Values :
                          /\ ~BTreeIndex_remove(indices_[c], v).ret
                          /\ BTreeIndex_remove(indices_[c], v).index = indices_[c]
                          /\ (/\ \E i \in 1..Len(rows_) :
                                    rows_[i].id = row_id /\ Holds(rows_[i], c, v)
                              /\ TreeHolds(indices_[c], v, row_id))
                             => /\ c \in DOMAIN indices_'
                                /\ TreeHolds(indices_'[c], v, row_id)]_vars

\* C13: BTreeIndex::find(v) returns the placeholder id 1 when an entry with
\* value v was inserted into the index and 0 when none was.
C13_TreeFindTellsExistence ==
    \A c \in DOMAIN indices_ :
        indices_[c].kind = "btree" =>
            \A v \in Values :
                BTreeIndex_find(indices_[c], v)
                    = IF v \in tree_inserted[c] THEN 1 ELSE 0

\* the row ids of a sequence of (value, row id) pairs
RowIdsOf(pairs) == [i \in 1..Len(pairs) |-> pairs[i] % PairBase]

\* C14: BTreeIndex::range_query(start, end) returns the row ids of the entries
\* of the tree whose value lies in [start, end], in key order.
C14_TreeRangeScan ==
    \A c \in DOMAIN indices_ :
        indices_[c].kind = "btree" =>
            \A start \in Values, end \in Values :
                BTreeIndex_range_query(indices_[c], start, end)
                    = RowIdsOf(BTree_range_query(indices_[c].btree,
                                                 make_pair(start, 0),
                                                 make_pair(end, PairBase - 1)))

\* C15 as stated: when insert_row hands a hash index the value v of the new
\* row (insert(v, r2)) and the index already resolves v to another row r1, then
\* find(v) returns the new row's id r2 afterwards (last writer wins).
C15_LastWriterWins ==
    [][\A row \in RowInputs :
          (InsertRow(row) /\ tb_last'.ok) =>
              \A c \in DOMAIN indices_ :
                  indices_[c].kind = "hash" =>
                      \A v \in Values :
                          (Holds(row, c, v) /\ HashIndex_find(indices_[c], v) # 0)
                          => HashIndex_find(indices_'[c], v) = next_row_id_]_vars

\* C15 amended: when insert_row hands a hash index the value v of the new row
\* (insert(v, r2)) and the index already resolves v to another row r1, then
\* find(v) still returns r1 afterwards (first writer wins).
C15_FirstWriterWins ==
    [][\A row \in RowInputs :
          (InsertRow(row) /\ tb_last'.ok) =>
              \A c \in DOMAIN indices_ :
                  indices_[c].kind = "hash" =>
                      \A v \in Values :
                          (Holds(row, c, v) /\ HashIndex_find(indices_[c], v) # 0)
                          => /\ HashIndex_find(indices_'[c], v)
                                   = HashIndex_find(indices_[c], v)
                             /\ HashIndex_find(indices_'[c], v) # next_row_id_]_vars

\* C15 happens: a second row with the value of the first was inserted under a
\* hash index on name, and find resolves the value to the first row.
C15_Witness ==
    /\ tb_last.op = "insert_row"
    /\ tb_last.ok
    /\ "name" \in DOMAIN indices_
    /\ indices_["name"].kind = "hash"
    /\ Len(rows_) = 2
    /\ get_value(rows_[1], 1) = get_value(rows_[2], 1)
    /\ HashIndex_find(indices_["name"], get_value(rows_[1], 1)) = rows_[1].id
    /\ rows_[2].id = next_row_id_ - 1

\* the id of the first row of rows that holds v in the column, 0 when none does
FirstHolder(rows, column_name, v) ==
    LET holders == {i \in 1..Len(rows) : Holds(rows[i], column_name, v)}
    IN IF holders = {} THEN 0
       ELSE rows[CHOOSE i \in holders : \A j \in holders : i <= j].id

\* C16: when create_index builds a hash index on a column, find(v) on the new
\* index returns the id of the first row in storage order that holds v, also
\* when several rows hold v (and 0 when no row holds v).
C16_HashBuildKeepsFirstRow ==
    [][\A column_name \in ColumnInputs :
          (CreateIndex(column_name, "hash") /\ tb_last'.ok) =>
              /\ column_name \in DOMAIN indices_'
              /\ \A v \in Values :
                    HashIndex_find(indices_'[column_name], v)
                        = FirstHolder(rows_, column_name, v)]_vars

\* C16 happens: a hash index on name was built over two rows that hold the
\* same value, and find resolves the value to the first of them.
C16_Witness ==
    /\ tb_last.op = "create_index"
    /\ tb_last.ok
    /\ "name" \in DOMAIN indices_
    /\ indices_["name"].kind = "hash"
    /\ Len(rows_) = 2
    /\ get_value(rows_[1], 1) = get_value(rows_[2], 1)
    /\ rows_[1].id < rows_[2].id
    /\ HashIndex_find(indices_["name"], get_value(rows_[1], 1)) = rows_[1].id

\* the Table's fields after the step
TBNext == [rows |-> rows_', next_row_id |-> next_row_id_', indices |-> indices_']

\* C17: when insert_row(row) succeeds and returns id, get_row(id) yields a row
\* with the values of row in order, with that id and with as many values as the
\* schema has columns.
C17_InsertThenGetRoundTrip ==
    [][\A row \in RowInputs :
          (InsertRow(row) /\ tb_last'.ok) =>
              LET id == insert_row(TB, row).ret
                  got == get_row(TBNext, id)
              IN /\ id # 0
                 /\ got.found
                 /\ got.row.values = row.values
                 /\ got.row.id = id
                 /\ row_size(got.row) = column_count]_vars

\* C17 happens: the third row was inserted after an earlier row was deleted,
\* and get_row(3) yields it with the value 2 it was inserted with.
C17_Witness ==
    /\ tb_last.op = "insert_row"
    /\ tb_last.ok
    /\ next_row_id_ = 4
    /\ Len(rows_) = 2
    /\ get_row(TB, 3).found
    /\ get_row(TB, 3).row = [id |-> 3, values |-> <<0, 2>>]

\* the rows of rows whose id is not row_id, in order
RowsBut(rows, row_id) == SelectSeq(rows, LAMBDA r : r.id # row_id)

\* C18: when delete_row(id) returns true, get_row(id) returns null afterwards
\* and the other rows are as they were; when no row has the id, delete_row
\* returns false and changes neither the rows nor the indices.
C18_DeleteRemovesOnlyThatRow ==
    [][\A row_id \in RowIds :
          DeleteRow(row_id) =>
              /\ tb_last'.ok <=> get_row(TB, row_id).found
              /\ tb_last'.ok =>
                    /\ ~get_row(TBNext, row_id).found
                    /\ rows_' = RowsBut(rows_, row_id)
                    /\ Len(rows_') = Len(rows_) - 1
              /\ ~tb_last'.ok => UNCHANGED <<rows_, indices_, next_row_id_>>]_vars

\* C18 happens: of two rows the second was deleted and the first, holding the
\* value 2, is still there.
C18_Witness ==
    /\ tb_last.op = "delete_row"
    /\ tb_last.ok
    /\ next_row_id_ = 3
    /\ ~get_row(TB, 2).found
    /\ get_row(TB, 1).found
    /\ get_row(TB, 1).row.values = <<0, 2>>

\* C19: insert_row with a row whose value count differs from the schema's
\* column count returns 0 and leaves rows, indices and the next-id counter as
\* they were, so the next successful insert gets the id it would have got.
C19_WrongSizeInsertChangesNothing ==
    [][\A row \in RowInputs :
          (InsertRow(row) /\ row_size(row) # column_count) =>
              /\ insert_row(TB, row).ret = 0
              /\ ~tb_last'.ok
              /\ UNCHANGED <<rows_, indices_, next_row_id_>>
              /\ \A good \in RowInputs :
                    insert_row(TBNext, good).ret = insert_row(TB, good).ret]_vars

\* C19 happens: an insert_row was rejected on a table that holds a row and a
\* hash index with an entry.
C19_Witness ==
    /\ tb_last.op = "insert_row"
    /\ ~tb_last.ok
    /\ Len(rows_) >= 1
    /\ next_row_id_ >= 2
    /\ "name" \in DOMAIN indices_
    /\ indices_["name"].hashmap.size >= 1

\* the ids of the rows in the table are non-zero, below the next id to assign,
\* and increase along the storage order (so they are pairwise distinct)
RowIdsInOrder ==
    /\ \A i \in 1..Len(rows_) : rows_[i].id >= 1 /\ rows_[i].id < next_row_id_
    /\ \A i \in 1..Len(rows_), j \in 1..Len(rows_) :
          i < j => rows_[i].id < rows_[j].id

\* C20: after construction and after clear() the next id is 1; every
\* successful insert_row returns the next id, which is above every id handed out
\* since then, and moves the counter past it; no other call moves the counter;
\* so the rows of the table always have pairwise distinct non-zero ids and the
\* id of a deleted row is not assigned again.
C20_RowIdsIncrease ==
    /\ [](RowIdsInOrder /\ (tb_last.op \in {"none", "clear"} => next_row_id_ = 1))
    /\ [][/\ \A row \in RowInputs :
               (InsertRow(row) /\ tb_last'.ok) =>
                   /\ insert_row(TB, row).ret = next_row_id_
                   /\ next_row_id_' = next_row_id_ + 1
                   /\ \A i \in 1..Len(rows_) : rows_[i].id < insert_row(TB, row).ret
          /\ (tb_last'.op \notin {"insert_row", "clear"} \/ ~tb_last'.ok)
               => next_row_id_' = next_row_id_]_vars

\* C20 happens: after row 1 was deleted a third row was inserted; it got the
\* id 3 and the table holds the rows 2 and 3.
C20_Witness ==
    /\ tb_last.op = "insert_row"
    /\ tb_last.ok
    /\ next_row_id_ = 4
    /\ Len(rows_) = 2
    /\ rows_[1].id = 2
    /\ rows_[2].id = 3

\* C21: in every state the table reaches, update_row(id, new_row) returns
\* false and changes nothing when no row has the id; otherwise it returns
\* true, the row takes new_row's values and keeps its id and its place, and
\* the other rows are as they were.
C21_UpdateReplacesOnlyThatRow ==
    \A row_id \in RowIds, new_row \in RowInputs :
        LET r == update_row(TB, row_id, new_row)
        IN /\ r.ret <=> get_row(TB, row_id).found
           /\ r.ret =>
                 /\ get_row(r.tb, row_id).found
                 /\ get_row(r.tb, row_id).row
                       = [id |-> row_id, values |-> new_row.values]
                 /\ Len(r.tb.rows) = Len(rows_)
                 /\ \A i \in 1..Len(rows_) :
                       r.tb.rows[i].id = rows_[i].id
                       /\ (rows_[i].id # row_id => r.tb.rows[i] = rows_[i])
                 /\ r.tb.next_row_id = next_row_id_
           /\ ~r.ret => r.tb = TB

\* C21 happens: a row of a table of two rows was updated, and the rows 1 and 2
\* are in their places under their own ids, with different values.
C21_Witness ==
    /\ tb_last.op = "update_row"
    /\ tb_last.ok
    /\ Len(rows_) = 2
    /\ rows_[1] = [id |-> 1, values |-> <<0, 1>>]
    /\ rows_[2] = [id |-> 2, values |-> <<0, 2>>]

\* the rows of the table that have a value in the column hold pairwise
\* distinct values there
DistinctInColumn(column_name) ==
    \A i \in 1..Len(rows_), j \in 1..Len(rows_) :
        \A v \in Values :
            (Holds(rows_[i], column_name, v) /\ Holds(rows_[j], column_name, v))
            => i = j

\* C22: create_index(column, kind) on a column of the schema that has no index
\* yet, with kind "btree" or "hash", returns true and registers an index of
\* that kind; a hash index built over rows with pairwise distinct values in the
\* column resolves, for every row, the row's value to the row's id.
C22_CreateIndexPopulates ==
    [][\A column_name \in ColumnInputs :
          (has_column(column_name) /\ column_name \notin DOMAIN indices_) =>
              /\ \A kind \in {"btree", "hash"} :
                    LET r == create_index(TB, column_name, kind)
                    IN /\ r.ret
                       /\ DOMAIN r.tb.indices = DOMAIN indices_ \cup {column_name}
                       /\ r.tb.indices[column_name].kind = kind
                       /\ r.tb.rows = rows_
              /\ CreateIndex(column_name, "hash") =>
                    /\ tb_last'.ok
                    /\ column_name \in DOMAIN indices_'
                    /\ indices_'[column_name].kind = "hash"
                    /\ DistinctInColumn(column_name) =>
                          \A i \in 1..Len(rows_), v \in Values :
                              Holds(rows_[i], column_name, v) =>
                                  HashIndex_find(indices_'[column_name], v)
                                      = rows_[i].id]_vars

\* C22 happens: a hash index on name was built over two rows with different
\* values, and find resolves each value to its row.
C22_Witness ==
    /\ tb_last.op = "create_index"
    /\ tb_last.ok
    /\ "name" \in DOMAIN indices_
    /\ indices_["name"].kind = "hash"
    /\ Len(rows_) = 2
    /\ row_size(rows_[1]) = column_count
    /\ row_size(rows_[2]) = column_count
    /\ get_value(rows_[1], 1) # get_value(rows_[2], 1)
    /\ HashIndex_find(indices_["name"], get_value(rows_[1], 1)) = rows_[1].id
    /\ HashIndex_find(indices_["name"], get_value(rows_[2], 1)) = rows_[2].id

\* create_index(column_name, kind) is a call the code refuses
CreateIndexMustFail(column_name, kind) ==
    \/ ~has_column(column_name)
    \/ column_name \in DOMAIN indices_
    \/ kind \notin {"btree", "hash"}

\* C23: create_index returns false when the column is not in the schema, when
\* the column has an index already, or when the kind is neither "btree" nor
\* "hash"; the set of indices and the contents of every index stay as they are.
C23_CreateIndexFailuresChangeNothing ==
    [][\A column_name \in ColumnInputs, kind \in KindInputs :
          CreateIndexMustFail(column_name, kind) =>
              /\ ~create_index(TB, column_name, kind).ret
              /\ create_index(TB, column_name, kind).tb = TB
              /\ CreateIndex(column_name, kind) =>
                    /\ ~tb_last'.ok
                    /\ UNCHANGED <<rows_, indices_, next_row_id_>>]_vars

\* C23 happens: create_index was refused on a table whose column name has a
\* hash index with an entry that is not the entry a rebuild would keep.
C23_Witness ==
    /\ tb_last.op = "create_index"
    /\ ~tb_last.ok
    /\ "name" \in DOMAIN indices_
    /\ indices_["name"].kind = "hash"
    /\ \E v \in Values :
          /\ HashIndex_find(indices_["name"], v) # 0
          /\ HashIndex_find(indices_["name"], v) # FirstHolder(rows_, "name", v)

(***************************************************************************)
(* Properties of the HashMap                                               *)
(***************************************************************************)
\* find agrees with the history: a stored key is found with the value last
\* stored for it, and a key never stored or removed since is not found
FindAgreesWithStored ==
    \A k \in HashKeys :
        HashMap_find(hashmap_, k)
            = IF k \in DOMAIN hm_stored
              THEN [found |-> TRUE, value |-> hm_stored[k]]
              ELSE [found |-> FALSE, value |-> 0]

\* C24: after any sequence of insert, update, upsert and remove calls, find(k)
\* returns the value last stored for k by an insert or update that succeeded
\* or by an upsert, and not-found exactly for the keys never stored or removed
\* since; remove(k) returns true exactly when k was present, and then size()
\* goes down by one.
C24_FindReturnsLastStored ==
    /\ []FindAgreesWithStored
    /\ [][\A key \in HashKeys :
             HmRemove(key) =>
                 /\ hm_last'.ok <=> HashMap_find(hashmap_, key).found
                 /\ hm_last'.ok => hashmap_'.size = hashmap_.size - 1
                 /\ ~hm_last'.ok => hashmap_'.size = hashmap_.size]_vars

\* C24 happens: a key was removed from a map that keeps a chain of two entries
\* with different values.
C24_Witness ==
    /\ hm_last.op = "remove"
    /\ hm_last.ok
    /\ \E b \in 1..Len(hashmap_.buckets) :
          /\ Len(hashmap_.buckets[b]) = 2
          /\ hashmap_.buckets[b][1].value # hashmap_.buckets[b][2].value

\* C25: in every state the map reaches, insert(k, v) with k already present
\* returns false and leaves the value stored for k, size() and the buckets
\* (so also the bucket count: no rehash) as they were.
C25_DuplicateInsertChangesNothing ==
    \A key \in HashKeys, value \in 1..MaxValue :
        HashMap_find(hashmap_, key).found =>
            LET r == HashMap_insert(hashmap_, key, value)
            IN /\ ~r.ret
               /\ HashMap_find(r.hm, key) = HashMap_find(hashmap_, key)
               /\ r.hm.size = hashmap_.size
               /\ r.hm.bucket_count = hashmap_.bucket_count
               /\ r.hm.buckets = hashmap_.buckets

\* C25 happens: an insert was refused on a map so full that the insert of a
\* new key would have doubled the buckets.
C25_Witness ==
    /\ hm_last.op = "insert"
    /\ ~hm_last.ok
    /\ needs_rehash(hashmap_)
    /\ hashmap_.size >= 3

\* C26: in every state the map reaches, upsert(k, v) on a key that is present
\* returns false, makes v the value stored for k and keeps size(); on a new
\* key it returns true and creates the entry (k, v), and size() goes up by
\* one; the other keys keep their values.
C26_UpsertOverwritesOrCreates ==
    \A key \in HashKeys, value \in 1..MaxValue :
        LET r == HashMap_upsert(hashmap_, key, value)
        IN /\ r.ret <=> ~HashMap_find(hashmap_, key).found
           /\ HashMap_find(r.hm, key) = [found |-> TRUE, value |-> value]
           /\ r.hm.size = IF HashMap_find(hashmap_, key).found
                          THEN hashmap_.size ELSE hashmap_.size + 1
           /\ \A k \in HashKeys \ {key} :
                 HashMap_find(r.hm, k) = HashMap_find(hashmap_, k)

\* C26 happens: an upsert found its key present, in a map that keeps a chain
\* of two entries with the values 1 and 2.
C26_Witness ==
    /\ hm_last.op = "upsert"
    /\ ~hm_last.ok
    /\ \E b \in 1..Len(hashmap_.buckets) :
          /\ Len(hashmap_.buckets[b]) = 2
          /\ hashmap_.buckets[b][2].value = 2
          /\ hm_stored[hashmap_.buckets[b][2].key] = 2
          /\ hashmap_.buckets[b][1].value = 1

\* the number of entries in the chains of the map
RECURSIVE EntryCount(_, _)
EntryCount(buckets, from) ==
    IF from > Len(buckets) THEN 0
    ELSE Len(buckets[from]) + EntryCount(buckets, from + 1)

\* C27: size() is the number of keys inserted and not removed, and a call that
\* doubles the bucket count (once or more) leaves every such key found with
\* the value stored for it, one entry per key.
C27_RehashKeepsContents ==
    /\ [](hashmap_.size = Cardinality(DOMAIN hm_stored))
    /\ [][hashmap_'.bucket_count > hashmap_.bucket_count =>
             /\ \A k \in DOMAIN hm_stored :
                   HashMap_find(hashmap_', k)
                       = [found |-> TRUE, value |-> hm_stored[k]]
             /\ EntryCount(hashmap_'.buckets, 1) = Cardinality(DOMAIN hm_stored')
             /\ Len(hashmap_'.buckets) = hashmap_'.bucket_count]_vars

\* C27 happens: the buckets were doubled twice and the map holds four keys.
C27_Witness ==
    /\ hm_last.op \in {"insert", "upsert"}
    /\ hm_last.ok
    /\ hashmap_.bucket_count = 4 * InitialBuckets
    /\ hashmap_.size = 4
    /\ \E k \in DOMAIN hm_stored : hm_stored[k] = 2

(***************************************************************************)
(* Properties of the BTree: min, max and range_query                       *)
(***************************************************************************)
\* the smallest and the largest element of a non-empty set of integers
SetMin(S) == CHOOSE x \in S : \A y \in S : x <= y

SetMax(S) == CHOOSE x \in S : \A y \in S : x >= y

\* C28: after the keys of a non-empty set were inserted, in any order, min()
\* returns the smallest and max() the largest of them.
C28_MinMaxOfInserted ==
    bt_called # {} =>
        /\ BTree_min(BT) = SetMin(bt_called)
        /\ BTree_max(BT) = SetMax(bt_called)

\* C28 happens: the tree has three levels after a full internal root was
\* split, and the node the split shrank kept one child more than its keys
\* account for.
C28_Witness ==
    /\ ~root_.is_leaf
    /\ \E i \in 1..Len(root_.children) :
          /\ ~root_.children[i].is_leaf
          /\ Len(root_.children[i].children) > root_.children[i].key_count + 1
    /\ Cardinality(bt_called) >= 10

\* C29: range_query(start, end) returns exactly the keys k that were inserted
\* with start <= k <= end, in ascending order.
C29_RangeQueryReturnsInserted ==
    \A start \in Keys, end \in Keys :
        BTree_range_query(BT, start, end)
            = SortedSeq({k \in bt_called : start <= k /\ k <= end})

(***************************************************************************)
(* Properties of the SQL layer                                             *)
(***************************************************************************)
\* the rows of USERS whose id column holds id
Matching(rows, id) == {k \in 1..Len(rows) : Len(rows[k].values) >= 1 /\ rows[k].values[1] = id}

\* C30: an UPDATE or DELETE statement submitted through execute_sql on an
\* existing table returns a success result and is carried out: after UPDATE
\* USERS SET NAME = v WHERE ID = id every row whose id column holds id has v
\* in its name column, and after DELETE FROM USERS WHERE ID = id no row
\* holds id in its id column.
C30_UpdateAndDeleteAreCarriedOut ==
    [][\A id \in SqlValues :
          /\ \A v \in SqlValues :
                (ExecuteSql(UpdateSql("USERS", v, id)) /\ "USERS" \in table_refs_) =>
                    /\ sql_result'.success
                    /\ \A k \in Matching(rows_', id) : rows_'[k].values[2] = v
          /\ (ExecuteSql(DeleteSql("USERS", id)) /\ "USERS" \in table_refs_) =>
                    /\ sql_result'.success
                    /\ Matching(rows_', id) = {}]_vars

(***************************************************************************)
(* Properties of the BTree: the shape of the tree                          *)
(***************************************************************************)
\* the keys a node holds itself
NodeKeys(node) == {node.keys[i] : i \in 1..node.key_count}

\* the split of the full child at child_index of parent keeps the keys of the
\* child: they are the keys of the child after the split, the keys of the new
\* sibling at child_index + 1 and the key put into the parent at child_index
SplitKeepsKeys(parent, child_index) ==
    LET split == split_child(parent, child_index)
    IN NodeKeys(parent.children[child_index + 1])
           = NodeKeys(split.children[child_index + 1])
               \cup NodeKeys(split.children[child_index + 2])
               \cup {split.keys[child_index + 1]}

\* C31: splitting a full node loses no key, for the two splits insert makes
\* on the tree at hand: of a full root under a new root, and of a full child
\* of the root.
C31_SplitLosesNoKey ==
    /\ is_full(root_) =>
          SplitKeepsKeys([NewNode(FALSE) EXCEPT !.children = <<root_>>], 0)
    /\ ~root_.is_leaf =>
          \A i \in 0..root_.key_count :
              is_full(root_.children[i + 1]) => SplitKeepsKeys(root_, i)

\* every node at or below node holds at most Order - 1 keys, an internal
\* node key_count + 1 children and a leaf none
RECURSIVE WellShaped(_)
WellShaped(node) ==
    /\ node.key_count <= Order - 1
    /\ Len(node.keys) = node.key_count
    /\ IF node.is_leaf
       THEN Len(node.children) = 0
       ELSE /\ Len(node.children) = node.key_count + 1
            /\ \A i \in 1..Len(node.children) : WellShaped(node.children[i])

\* C32: after any sequence of inserts every node holds at most Order - 1
\* keys, every internal node exactly key_count + 1 children and every leaf
\* no children.
C32_NodesAreWellShaped == WellShaped(root_)

\* ceil(Order / 2) - 1, the fewest keys of a node that is not the root
MinKeys == (Order + 1) \div 2 - 1

\* every node below node holds at least MinKeys keys
RECURSIVE FilledBelow(_)
FilledBelow(node) ==
    node.is_leaf \/ \A i \in 1..Len(node.children) :
                        /\ node.children[i].key_count >= MinKeys
                        /\ FilledBelow(node.children[i])

\* C33: after any sequence of inserts every node but the root holds at least
\* ceil(Order / 2) - 1 keys.
C33_NodesAreHalfFull == FilledBelow(root_)

\* C35: after any sequence of inserts the in-order traversal visits the keys
\* in strictly ascending order, so no key twice.
C35_TraversalIsAscending ==
    LET visited == traverse_helper(root_)
    IN \A i \in 1..(Len(visited) - 1) : visited[i] < visited[i + 1]

\* C35 happens: the tree has three levels, an internal node below the root
\* was split off, and the traversal visits nine keys or more, fewer than
\* were inserted.
C35_Witness ==
    /\ ~root_.is_leaf
    /\ \E i \in 1..Len(root_.children) : ~root_.children[i].is_leaf
    /\ Len(traverse_helper(root_)) >= 9
    /\ Len(traverse_helper(root_)) < size_

(***************************************************************************)
(* Properties of the HashMap: the buckets                                  *)
(***************************************************************************)
\* C34: the bucket count never decreases: remove, update, find and clear
\* leave it as it is, rehash(n) with n not larger than the bucket count
\* changes nothing, and an insert (also the one upsert makes) leaves the
\* bucket count or doubles it.
C34_BucketCountNeverShrinks ==
    /\ [](\A new_bucket_count \in RehashInputs :
             new_bucket_count <= hashmap_.bucket_count =>
                 rehash(hashmap_, new_bucket_count) = hashmap_)
    /\ [][/\ hashmap_'.bucket_count >= hashmap_.bucket_count
          /\ hm_last'.op \in {"remove", "update", "find", "clear"} =>
                hashmap_'.bucket_count = hashmap_.bucket_count
          /\ hm_last'.op \in {"insert", "upsert"} =>
                hashmap_'.bucket_count
                    \in {hashmap_.bucket_count, 2 * hashmap_.bucket_count}]_vars

\* C34 happens: a map whose buckets were grown by rehash(MaxBuckets) and then
\* doubled by an insert was cleared, and has the doubled bucket count.
C34_Witness ==
    /\ hm_last.op = "clear"
    /\ hashmap_.size = 0
    /\ hashmap_.bucket_count = 2 * MaxBuckets

\* C39: after any sequence of calls, rehashes included, size() is the number
\* of entries in the buckets, there are bucket_count buckets, every entry is
\* in the bucket hash(key) selects, and no key is in two entries.
C39_BucketsAreConsistent ==
    /\ hashmap_.size = EntryCount(hashmap_.buckets, 1)
    /\ Len(hashmap_.buckets) = hashmap_.bucket_count
    /\ \A b \in 1..Len(hashmap_.buckets) :
          \A i \in 1..Len(hashmap_.buckets[b]) :
              /\ hash(hashmap_, hashmap_.buckets[b][i].key) = b - 1
              /\ \A c \in 1..Len(hashmap_.buckets) :
                    \A j \in 1..Len(hashmap_.buckets[c]) :
                        hashmap_.buckets[c][j].key = hashmap_.buckets[b][i].key
                            => (c = b /\ j = i)

\* C39 happens: a key was removed from a map whose buckets an insert had
\* doubled, and a chain of two entries is left.
C39_Witness ==
    /\ hm_last.op = "remove"
    /\ hm_last.ok
    /\ hashmap_.bucket_count = 2 * InitialBuckets
    /\ hashmap_.size = 2
    /\ \E b \in 1..Len(hashmap_.buckets) : Len(hashmap_.buckets[b]) = 2

(***************************************************************************)
(* Properties of the Table: the rows and their hash index entries          *)
(***************************************************************************)
\* C36: after any sequence of insert_row, update_row and delete_row every
\* row of the table holds exactly column_count values.
C36_RowsMatchSchema ==
    \A i \in 1..Len(rows_) : row_size(rows_[i]) = column_count

\* C37: every value a row of the table holds in a column with a hash index
\* is found by that index: find returns a non-zero id for it.
C37_LiveValuesAreFindable ==
    \A c \in DOMAIN indices_ :
        indices_[c].kind = "hash" =>
            \A i \in 1..Len(rows_), v \in Values :
                Holds(rows_[i], c, v) => HashIndex_find(indices_[c], v) # 0

(***************************************************************************)
(* Properties of the PageManager: the access order of the LRU policy       *)
(***************************************************************************)
\* C38: after any sequence of calls the access order of the policy lists
\* exactly the ids of the resident pages, each once.
C38_AccessOrderListsResidentPages ==
    /\ {access_order_[i] : i \in 1..Len(access_order_)} = DOMAIN pages_
    /\ Len(access_order_) = Cardinality(DOMAIN pages_)

====
